---- MODULE Spec2Model ----
(***************************************************************************)
(* Model of the value specification library cmk/gui/valuespec.py.          *)
(*                                                                         *)
(* A valuespec object is a record of its constructor-set fields.  The      *)
(* methods canonical_value, default_value, from_html_vars,                 *)
(* validate_datatype and validate_value are operators on such records.     *)
(* Every method result is an outcome: either a returned Python value or a  *)
(* raised exception.                                                       *)
(***************************************************************************)
EXTENDS Integers, Sequences, FiniteSets, TLC

VARIABLES vs, op, req, arg, result

vars == <<vs, op, req, arg, result>>

-----------------------------------------------------------------------------
(* Bounds of the model *)

\* integers used as Python int inputs range over -1 .. MaxInt
MaxInt == 2
\* the submitted selection index of a dropdown ranges over -MaxSel-1 .. MaxSel
MaxSel == 3

-----------------------------------------------------------------------------
(* Python values.  All values share one record shape so that equality is   *)
(* always defined: t is the type name, n the number of an int, k the text  *)
(* of a str or the keys of a dict, v the components of a tuple or list or  *)
(* the values of a dict (aligned with k).                                  *)

PyNone == [t |-> "NoneType", n |-> 0, k |-> <<>>, v |-> <<>>]
PyInt(i) == [t |-> "int", n |-> i, k |-> <<>>, v |-> <<>>]
PyStr(s) == [t |-> "str", n |-> 0, k |-> <<s>>, v |-> <<>>]
PyTuple(items) == [t |-> "tuple", n |-> 0, k |-> <<>>, v |-> items]
PyList(items) == [t |-> "list", n |-> 0, k |-> <<>>, v |-> items]
PyDict(keys, items) == [t |-> "dict", n |-> 0, k |-> keys, v |-> items]
PyTrue == [t |-> "bool", n |-> 1, k |-> <<>>, v |-> <<>>]
PyFalse == [t |-> "bool", n |-> 0, k |-> <<>>, v |-> <<>>]
\* a float with the whole number x as its value: 70.0 is PyFloat(70)
PyFloat(x) == [t |-> "float", n |-> x, k |-> <<>>, v |-> <<>>]

StrOf(x) == x.k[1]

\* bool(x)
Truthy(x) ==
    CASE x.t = "NoneType" -> FALSE
      [] x.t = "int" -> x.n # 0
      [] x.t = "bool" -> x.n # 0
      [] x.t = "float" -> x.n # 0
      [] x.t = "str" -> StrOf(x) # ""
      [] OTHER -> Len(x.v) > 0

\* isinstance(x, numbers.Integral): bool is a subclass of int
IsIntegral(x) == x.t \in {"int", "bool"}

\* the numbers: they compare and format by their value
IsNumber(x) == x.t \in {"int", "bool", "float"}

\* The order CPython 2 gives to built-in values of different types: None is
\* smallest, then numbers, then the other types by type name.
TypeRank(x) ==
    CASE x.t = "NoneType" -> 0
      [] IsNumber(x) -> 1
      [] x.t = "dict" -> 2
      [] x.t = "list" -> 3
      [] x.t = "str" -> 4
      [] OTHER -> 5

\* a string order on the texts the model uses: shorter first, then by table
StrRank(s) ==
    CASE s = "" -> 0
      [] s = "a" -> 1
      [] s = "b" -> 2
      [] s = "c" -> 3
      [] OTHER -> 4

RECURSIVE PyLess(_, _)
RECURSIVE SeqLess(_, _)
\* lexicographic comparison of two sequences of values
SeqLess(a, b) ==
    IF Len(b) = 0 THEN FALSE
    ELSE IF Len(a) = 0 THEN TRUE
    ELSE IF a[1] = b[1] THEN SeqLess(Tail(a), Tail(b))
    ELSE PyLess(a[1], b[1])

\* a < b
PyLess(a, b) ==
    IF TypeRank(a) # TypeRank(b) THEN TypeRank(a) < TypeRank(b)
    ELSE CASE TypeRank(a) = 1 -> a.n < b.n
           [] a.t = "str" -> StrRank(StrOf(a)) < StrRank(StrOf(b))
           [] a.t \in {"tuple", "list"} -> SeqLess(a.v, b.v)
           [] OTHER -> FALSE

-----------------------------------------------------------------------------
(* dict helpers: keys are kept in the order of KeyOrder, so that two dicts *)
(* with the same items are the same record                                 *)

KeyOrder == <<"a", "b", "c", "percent_full">>

KeyPos(key) == CHOOSE i \in 1..Len(KeyOrder) : KeyOrder[i] = key

SeqToSet(s) == {s[i] : i \in 1..Len(s)}

DictHas(d, key) == key \in SeqToSet(d.k)

DictGet(d, key) == d.v[CHOOSE i \in 1..Len(d.k) : d.k[i] = key]

\* d[key] = val for a key not yet in d
DictSet(d, key, val) ==
    LET before == {i \in 1..Len(d.k) : KeyPos(d.k[i]) < KeyPos(key)}
        n == Cardinality(before)
    IN PyDict(SubSeq(d.k, 1, n) \o <<key>> \o SubSeq(d.k, n + 1, Len(d.k)),
              SubSeq(d.v, 1, n) \o <<val>> \o SubSeq(d.v, n + 1, Len(d.v)))

EmptyDict == PyDict(<<>>, <<>>)

-----------------------------------------------------------------------------
(* Outcomes of a call: a returned value, or a raised exception.  called    *)
(* lists the validation phases a validate_value call ran.                  *)

Return(x) == [ok |-> TRUE, val |-> x, err |-> "", called |-> <<>>]
Raise(e) == [ok |-> FALSE, val |-> PyNone, err |-> e, called |-> <<>>]
Done == Return(PyNone)

-----------------------------------------------------------------------------
(* The HTML request: a function from the names of the submitted variables  *)
(* to their texts.                                                         *)

\* html.request.var(name, deflt)
request_var(r, name, deflt) == IF name \in DOMAIN r THEN r[name] ELSE deflt

\* html.request.has_var(name)
request_has_var(r, name) == name \in DOMAIN r

\* html.get_checkbox(name): True when the box is submitted checked, None
\* when the form was not submitted with it
get_checkbox(r, name) == IF name \in DOMAIN r /\ r[name] = "on" THEN PyTrue ELSE PyNone

\* int(text), for the decimal numerals of small integers; ValueError otherwise
IntRange == (0 - MaxSel - 1)..(MaxSel + 1)

int(text) ==
    IF \E i \in IntRange : ToString(i) = text
    THEN Return(PyInt(CHOOSE i \in IntRange : ToString(i) = text))
    ELSE Raise("ValueError")

-----------------------------------------------------------------------------
(* Callables handed to constructors are named by an id.                    *)

\* validate=...: a callable (varprefix, value) that raises MKUserError to
\* reject; "none" stands for validate=None
CallValidate(id, value) ==
    CASE id = "reject" -> Raise("MKUserError")
      [] id = "reject_none" -> IF value = PyNone THEN Raise("MKUserError") ELSE Done
      [] OTHER -> Done

\* back=... / forth=... of Transform, migrate=... of Dictionary, and the
\* functions given as default_value: one-argument functions on values
CallFn(id, value) ==
    CASE id = "inc" -> IF IsIntegral(value) THEN Return(PyInt(value.n + 1))
                       ELSE Raise("TypeError")
      [] id = "dec" -> IF IsIntegral(value) THEN Return(PyInt(value.n - 1))
                       ELSE Raise("TypeError")
      [] id = "pair_to_dict" ->
            IF value.t = "tuple" /\ Len(value.v) = 2
            THEN Return(PyDict(<<"a", "b">>, value.v))
            ELSE Return(value)
      [] OTHER -> Return(value)

\* match=... of Alternative: a function from the value to an index
CallMatch(id, value) ==
    CASE id = "zero" -> 0
      [] id = "by_type" -> IF IsIntegral(value) THEN 0 ELSE 1
      [] OTHER -> 0

-----------------------------------------------------------------------------
(* Valuespec objects.  All objects share one record shape; a class reads   *)
(* only its own fields.                                                    *)

\* the default_value argument: left out ("unset", the _DEF_VALUE marker), a
\* plain value ("value"), a function returning v ("func"), or a function
\* that raises ("raises")
NoDefault == [kind |-> "unset", v |-> PyNone]
DefaultIs(x) == [kind |-> "value", v |-> x]
DefaultFn(x) == [kind |-> "func", v |-> x]
DefaultRaises == [kind |-> "raises", v |-> PyNone]

\* ValueSpec.__init__; given_optional_keys and given_required_keys keep the
\* arguments Dictionary.__init__ was called with
ValueSpec(default_value, validate) ==
    [cls |-> "ValueSpec", dflt |-> default_value, validate |-> validate,
     elements |-> <<>>, keys |-> <<>>, choice_vals |-> <<>>, has_vs |-> <<>>,
     value |-> PyNone, minvalue |-> PyNone, maxvalue |-> PyNone,
     allow_empty |-> TRUE, allow_24_00 |-> FALSE, allow_empty_content |-> TRUE,
     allowed_extensions |-> <<>>, has_extensions |-> FALSE,
     negate |-> FALSE, optional_keys |-> TRUE, required_keys |-> <<>>,
     ignored_keys |-> <<>>, default_keys |-> <<>>, migrate |-> "none",
     match |-> "none", back |-> "none", forth |-> "none",
     encoding |-> "tuple", no_preselect |-> FALSE,
     choices_kind |-> "list", invalid_choice |-> "complain", encode_value |-> TRUE,
     allow_int |-> FALSE,
     given_optional_keys |-> [is_list |-> FALSE, b |-> TRUE, l |-> <<>>],
     given_required_keys |-> <<>>]

\* FixedValue.__init__
FixedValue(value, default_value, validate) ==
    [ValueSpec(default_value, validate) EXCEPT !.cls = "FixedValue", !.value = value]

\* Integer.__init__
Integer(minvalue, maxvalue, default_value, validate) ==
    [ValueSpec(default_value, validate) EXCEPT
        !.cls = "Integer", !.minvalue = minvalue, !.maxvalue = maxvalue]

\* Float.__init__
Float(allow_int, minvalue, maxvalue, default_value, validate) ==
    [Integer(minvalue, maxvalue, default_value, validate) EXCEPT
        !.cls = "Float", !.allow_int = allow_int]

\* the minvalue and maxvalue of a Percentage constructed without them
Percentage_minvalue == PyFloat(0)
Percentage_maxvalue == PyFloat(101)

\* Percentage.__init__
Percentage(allow_int, minvalue, maxvalue, default_value, validate) ==
    [Float(allow_int, minvalue, maxvalue, default_value, validate) EXCEPT
        !.cls = "Percentage"]

\* Timeofday.__init__
Timeofday(allow_24_00, allow_empty, default_value, validate) ==
    [ValueSpec(default_value, validate) EXCEPT
        !.cls = "Timeofday", !.allow_24_00 = allow_24_00, !.allow_empty = allow_empty]

\* FileUpload.__init__: allowed_extensions is None (has_extensions FALSE) or a list
FileUpload(allow_empty, has_extensions, allowed_extensions, allow_empty_content, default_value, validate) ==
    [ValueSpec(default_value, validate) EXCEPT
        !.cls = "FileUpload", !.allow_empty = allow_empty,
        !.has_extensions = has_extensions, !.allowed_extensions = allowed_extensions,
        !.allow_empty_content = allow_empty_content]

\* Optional.__init__
Optional(valuespec, negate, none_value, default_value, validate) ==
    [ValueSpec(default_value, validate) EXCEPT
        !.cls = "Optional", !.elements = <<valuespec>>, !.negate = negate,
        !.value = none_value]

\* Alternative.__init__
Alternative(elements, match, default_value, validate) ==
    [ValueSpec(default_value, validate) EXCEPT
        !.cls = "Alternative", !.elements = elements, !.match = match]

\* Tuple.__init__
Tuple(elements, default_value, validate) ==
    [ValueSpec(default_value, validate) EXCEPT !.cls = "Tuple", !.elements = elements]

\* Transform.__init__
Transform(valuespec, back, forth, default_value, validate) ==
    [ValueSpec(default_value, validate) EXCEPT
        !.cls = "Transform", !.elements = <<valuespec>>, !.back = back, !.forth = forth]

\* the optional_keys argument of Dictionary: a bool or a list of keys
OptBool(b) == [is_list |-> FALSE, b |-> b, l |-> <<>>]
OptList(l) == [is_list |-> TRUE, b |-> FALSE, l |-> l]

\* Dictionary.__init__: elements are (keys[i], elements[i])
Dictionary(keys, elements, optional_keys, required_keys, ignored_keys, default_keys, migrate, default_value, validate) ==
    [ValueSpec(default_value, validate) EXCEPT
        !.cls = "Dictionary", !.keys = keys, !.elements = elements,
        !.ignored_keys = ignored_keys, !.default_keys = default_keys,
        !.migrate = migrate,
        !.given_optional_keys = optional_keys, !.given_required_keys = required_keys,
        !.required_keys =
            IF optional_keys.is_list /\ Len(optional_keys.l) > 0
            THEN SelectSeq(keys, LAMBDA e : e \notin SeqToSet(optional_keys.l))
            ELSE required_keys,
        !.optional_keys =
            IF optional_keys.is_list /\ Len(optional_keys.l) > 0 THEN TRUE
            ELSE IF optional_keys.is_list THEN FALSE
            ELSE optional_keys.b]

\* CascadingDropdown.__init__ with normalize_choices: choice i is
\* (choice_vals[i], title, elements[i]) and has_vs[i] tells whether a
\* valuespec was given for it
CascadingDropdown(choice_vals, has_vs, elements, encoding, no_preselect, no_preselect_value, default_value, validate) ==
    [ValueSpec(default_value, validate) EXCEPT
        !.cls = "CascadingDropdown", !.choice_vals = choice_vals, !.has_vs = has_vs,
        !.elements = elements, !.encoding = IF encoding = "list" THEN "list" ELSE "tuple",
        !.no_preselect = no_preselect, !.value = no_preselect_value]

\* DropdownChoice.__init__: choices is a list of (value, title), a function
\* returning such a list, or a dict from numbers to names (choice_vals then
\* holds its keys); invalid_choice is "complain", "replace" or "none" (None)
DropdownChoice(choices_kind, choice_vals, invalid_choice, no_preselect, no_preselect_value, encode_value, default_value, validate) ==
    [ValueSpec(default_value, validate) EXCEPT
        !.cls = "DropdownChoice", !.choices_kind = choices_kind,
        !.choice_vals = choice_vals, !.invalid_choice = invalid_choice,
        !.no_preselect = no_preselect, !.value = no_preselect_value,
        !.encode_value = encode_value]

-----------------------------------------------------------------------------
(* Methods.  The operators named after a method without a class dispatch   *)
(* on the class of the object, as the method call does.                    *)

RECURSIVE canonical_value(_)
RECURSIVE default_value(_)
RECURSIVE from_html_vars(_, _, _)
RECURSIVE validate_datatype(_, _)
RECURSIVE validate_value(_, _)
RECURSIVE validate_value_inner(_, _)

\* ValueSpec.canonical_value
ValueSpec_canonical_value(self) == Return(PyNone)

\* default_value with a default of None taken for no default at all
ValueSpec_default_value_none_is_unset(self) ==
    CASE self.dflt.kind \in {"unset", "raises"} -> canonical_value(self)
      [] self.dflt.v = PyNone -> canonical_value(self)
      [] OTHER -> Return(self.dflt.v)

\* ValueSpec.default_value: an unset _default_value is an AttributeError,
\* caught like the exception of a raising function
ValueSpec_default_value(self) ==
    CASE self.dflt.kind = "unset" -> canonical_value(self)
      [] self.dflt.kind = "raises" -> canonical_value(self)
      [] OTHER -> Return(self.dflt.v)

\* ValueSpec.from_html_vars
ValueSpec_from_html_vars(self, r, varprefix) == Return(PyNone)

\* ValueSpec.validate_datatype
ValueSpec_validate_datatype(self, value) == Done

\* ValueSpec._validate_value
ValueSpec_validate_value_inner(self, value) == Done

\* ValueSpec._custom_validate
custom_validate(self, value) ==
    IF self.validate # "none" THEN CallValidate(self.validate, value) ELSE Done

\* ValueSpec.validate_value: the call of validate_datatype is commented out
ValueSpec_validate_value(self, value) ==
    LET r2 == validate_value_inner(self, value)
    IN IF ~r2.ok THEN [r2 EXCEPT !.called = <<"_validate_value">>]
       ELSE [custom_validate(self, value) EXCEPT
                !.called = <<"_validate_value", "_custom_validate">>]

-----------------------------------------------------------------------------
\* FixedValue.canonical_value
FixedValue_canonical_value(self) == Return(self.value)

\* FixedValue.from_html_vars
FixedValue_from_html_vars(self, r, varprefix) == Return(self.value)

\* FixedValue.validate_datatype
FixedValue_validate_datatype(self, value) ==
    IF ~(self.value = value) THEN Raise("MKUserError") ELSE Done

-----------------------------------------------------------------------------
\* Integer.canonical_value
Integer_canonical_value(self) ==
    IF Truthy(self.minvalue) THEN Return(self.minvalue) ELSE Return(PyInt(0))

\* Integer.from_html_vars: a missing variable is int(None), a TypeError, and
\* the bare except turns every error into MKUserError
Integer_from_html_vars(self, r, varprefix) ==
    IF ~request_has_var(r, varprefix) THEN Raise("MKUserError")
    ELSE LET i == int(request_var(r, varprefix, ""))
         IN IF i.ok THEN i ELSE Raise("MKUserError")

\* Integer.validate_datatype
Integer_validate_datatype(self, value) ==
    IF ~IsIntegral(value) THEN Raise("MKUserError") ELSE Done

\* Integer._validate_value
Integer_validate_value_inner(self, value) ==
    IF self.minvalue # PyNone /\ PyLess(value, self.minvalue) THEN Raise("MKUserError")
    ELSE IF self.maxvalue # PyNone /\ PyLess(self.maxvalue, value) THEN Raise("MKUserError")
    ELSE Done

-----------------------------------------------------------------------------
(* Float and Percentage: _validate_value is Integer's                      *)

\* the whole numbers the model has as floats and as the texts of floats
FloatNumbers == {0 - 1, 0, 70, 90, 101, 102}

\* float(x) of a number, or of the text of a number with or without ".0"
float(x) ==
    IF IsNumber(x) THEN Return(PyFloat(x.n))
    ELSE IF x.t # "str" THEN Raise("TypeError")
    ELSE IF \E i \in FloatNumbers : StrOf(x) \in {ToString(i), ToString(i) \o ".0"}
    THEN Return(PyFloat(CHOOSE i \in FloatNumbers :
                            StrOf(x) \in {ToString(i), ToString(i) \o ".0"}))
    ELSE Raise("ValueError")

\* Float.canonical_value
Float_canonical_value(self) == float(Integer_canonical_value(self).val)

\* Float.from_html_vars: html.request.var gives None for a missing
\* variable, and the bare except turns every error into MKUserError
Float_from_html_vars(self, r, varprefix) ==
    LET x == IF request_has_var(r, varprefix)
             THEN float(PyStr(request_var(r, varprefix, "")))
             ELSE float(PyNone)
    IN IF x.ok THEN x ELSE Raise("MKUserError")

\* Float.validate_datatype
Float_validate_datatype(self, value) ==
    IF value.t = "float" THEN Done
    ELSE IF IsIntegral(value) /\ self.allow_int THEN Done
    ELSE Raise("MKUserError")

\* Percentage.validate_datatype that takes an int without allow_int
Percentage_validate_datatype_any_number(self, value) ==
    IF IsNumber(value) THEN Done ELSE Raise("MKUserError")

\* Percentage.validate_datatype
Percentage_validate_datatype(self, value) ==
    IF self.allow_int
    THEN IF ~IsNumber(value) THEN Raise("MKUserError") ELSE Done
    ELSE Float_validate_datatype(self, value)

-----------------------------------------------------------------------------
\* Timeofday.canonical_value
Timeofday_canonical_value(self) ==
    IF self.allow_empty THEN Return(PyNone) ELSE Return(PyTuple(<<PyInt(0), PyInt(0)>>))

\* two decimal digits
TwoDigits(i) == IF i < 10 THEN "0" \o ToString(i) ELSE ToString(i)

\* re.match("^(24|[0-1][0-9]|2[0-3]):[0-5][0-9]$", text)
MatchesTime(text) == \E h \in 0..24, m \in 0..59 : text = TwoDigits(h) \o ":" \o TwoDigits(m)

\* tuple(map(int, text.split(":"))) of a text that matches
SplitTime(text) ==
    LET hm == CHOOSE hm \in (0..24) \X (0..59) :
                  text = TwoDigits(hm[1]) \o ":" \o TwoDigits(hm[2])
    IN PyTuple(<<PyInt(hm[1]), PyInt(hm[2])>>)

\* text.strip() for the texts of the model, whose only blank text is " "
strip(text) == IF text = " " THEN "" ELSE text

\* Timeofday.from_html_vars
Timeofday_from_html_vars(self, r, varprefix) ==
    LET text == strip(request_var(r, varprefix, ""))
    IN IF text = "" THEN Return(PyNone)
       ELSE IF MatchesTime(text) THEN Return(SplitTime(text))
       ELSE LET b == int(text)
            IN IF b.ok THEN Return(PyTuple(<<b.val, PyInt(0)>>)) ELSE Raise("MKUserError")

\* Timeofday.validate_datatype
Timeofday_validate_datatype(self, value) ==
    IF self.allow_empty /\ value = PyNone THEN Done
    ELSE IF value.t # "tuple" THEN Raise("MKUserError")
    ELSE IF Len(value.v) # 2 THEN Raise("MKUserError")
    ELSE IF \E i \in 1..2 : ~IsIntegral(value.v[i]) THEN Raise("MKUserError")
    ELSE Done

\* value[0], value[1] of Timeofday._validate_value: None and numbers cannot
\* be indexed, a sequence too short raises IndexError
IndexError01(value) ==
    CASE value.t \in {"NoneType", "int", "bool"} -> "TypeError"
      [] value.t = "dict" -> "KeyError"
      [] value.t = "str" -> IF StrOf(value) = "" THEN "IndexError" ELSE "TypeError"
      [] Len(value.v) < 2 -> "IndexError"
      [] OTHER -> ""

\* Timeofday._validate_value
Timeofday_validate_value_inner(self, value) ==
    LET max_value == IF self.allow_24_00 THEN PyTuple(<<PyInt(24), PyInt(0)>>)
                     ELSE PyTuple(<<PyInt(23), PyInt(59)>>)
    IN IF ~self.allow_empty /\ value = PyNone THEN Raise("MKUserError")
       ELSE IF PyLess(max_value, value) THEN Raise("MKUserError")
       ELSE IF IndexError01(value) # "" THEN Raise(IndexError01(value))
       ELSE IF \/ PyLess(value.v[1], PyInt(0)) \/ PyLess(value.v[2], PyInt(0))
               \/ PyLess(PyInt(24), value.v[1]) \/ PyLess(PyInt(59), value.v[2])
            THEN Raise("MKUserError")
       ELSE Done

-----------------------------------------------------------------------------
\* FileUpload.canonical_value
FileUpload_canonical_value(self) ==
    IF self.allow_empty THEN Return(PyNone) ELSE Return(PyStr(""))

\* file_name.endswith(extension), for names that are a stem and an extension
Stems == {"", "f"}
endswith(name, extension) == \E stem \in Stems : name = stem \o extension

\* FileUpload._validate_value; the unpacking of a value that is no sequence
\* of three raises
FileUpload_validate_value_inner(self, value) ==
    IF ~Truthy(value) THEN Raise("MKUserError")
    ELSE IF value.t \in {"int", "bool"} THEN Raise("TypeError")
    ELSE IF value.t = "str" \/ Len(value.v) # 3 THEN Raise("ValueError")
    ELSE LET file_name == IF value.t = "dict" THEN PyStr(value.k[1]) ELSE value.v[1]
             content == IF value.t = "dict" THEN PyStr(value.k[3]) ELSE value.v[3]
         IN IF ~self.allow_empty /\ (content = PyStr("") \/ file_name = PyStr(""))
            THEN Raise("MKUserError")
            ELSE IF ~self.allow_empty_content /\ content.t \in {"NoneType", "int", "bool"}
            THEN Raise("TypeError")
            ELSE IF ~self.allow_empty_content /\
                    (IF content.t = "str" THEN StrOf(content) = "" ELSE Len(content.v) = 0)
            THEN Raise("MKUserError")
            ELSE IF ~self.has_extensions THEN Done
            ELSE IF Len(self.allowed_extensions) = 0 THEN Raise("MKUserError")
            ELSE IF file_name.t # "str" THEN Raise("AttributeError")
            ELSE IF \E i \in 1..Len(self.allowed_extensions) :
                        endswith(StrOf(file_name), self.allowed_extensions[i])
                 THEN Done
            ELSE Raise("MKUserError")

\* html.request.uploaded_file(varprefix): the (name, mime type, content) of
\* the upload, None without one
uploaded_file(r, varprefix) ==
    IF request_has_var(r, varprefix)
    THEN PyTuple(<<PyStr(r[varprefix]), PyStr("text/plain"), PyStr(r[varprefix])>>)
    ELSE PyNone

\* FileUpload.from_html_vars
FileUpload_from_html_vars(self, r, varprefix) == Return(uploaded_file(r, varprefix))

-----------------------------------------------------------------------------
\* Optional.canonical_value
Optional_canonical_value(self) == Return(self.value)

\* Optional.from_html_vars
Optional_from_html_vars(self, r, varprefix) ==
    LET checkbox_checked == get_checkbox(r, varprefix \o "_use") = PyTrue
    IN IF checkbox_checked # self.negate
       THEN from_html_vars(self.elements[1], r, varprefix \o "_value")
       ELSE Return(self.value)

\* Optional.validate_datatype
Optional_validate_datatype(self, value) ==
    IF value # self.value THEN validate_datatype(self.elements[1], value) ELSE Done

\* _validate_value that hands none_value to the wrapped valuespec too
Optional_validate_value_inner_always(self, value) ==
    validate_value(self.elements[1], value)

\* Optional._validate_value
Optional_validate_value_inner(self, value) ==
    IF value # self.value THEN validate_value(self.elements[1], value) ELSE Done

-----------------------------------------------------------------------------
\* the loop of Alternative.matching_alternative and of
\* Alternative.validate_datatype: the index (from 0) of the first element
\* from position nr on whose validate_datatype raises nothing, -1 without one
RECURSIVE FirstAccepting(_, _, _)
FirstAccepting(elements, value, nr) ==
    IF nr >= Len(elements) THEN -1
    ELSE IF validate_datatype(elements[nr + 1], value).ok THEN nr
    ELSE FirstAccepting(elements, value, nr + 1)

\* elements[i] of a Python list: a negative index counts from the end
ListIndex(len, i) ==
    IF 0 <= i /\ i < len THEN i
    ELSE IF i < 0 /\ 0 - i <= len THEN len + i
    ELSE -1

\* Alternative.matching_alternative: the index (from 0) of the returned
\* valuespec as an int, None when none matches
Alternative_matching_alternative(self, value) ==
    IF self.match # "none"
    THEN LET i == ListIndex(Len(self.elements), CallMatch(self.match, value))
         IN IF i < 0 THEN Raise("IndexError") ELSE Return(PyInt(i))
    ELSE LET i == FirstAccepting(self.elements, value, 0)
         IN IF i < 0 THEN Return(PyNone) ELSE Return(PyInt(i))

\* Alternative.canonical_value
Alternative_canonical_value(self) ==
    IF Len(self.elements) = 0 THEN Raise("IndexError")
    ELSE canonical_value(self.elements[1])

\* Alternative.default_value
Alternative_default_value(self) ==
    IF self.dflt.kind \in {"unset", "raises"}
    THEN IF Len(self.elements) = 0 THEN Raise("IndexError")
         ELSE default_value(self.elements[1])
    ELSE Return(self.dflt.v)

\* Alternative.from_html_vars
Alternative_from_html_vars(self, r, varprefix) ==
    IF ~request_has_var(r, varprefix \o "_use") THEN Raise("TypeError")
    ELSE LET nr == int(request_var(r, varprefix \o "_use", ""))
         IN IF ~nr.ok THEN nr
            ELSE LET i == ListIndex(Len(self.elements), nr.val.n)
                 IN IF i < 0 THEN Raise("IndexError")
                    ELSE from_html_vars(self.elements[i + 1], r,
                                        varprefix \o "_" \o ToString(nr.val.n))

\* Alternative.validate_datatype
Alternative_validate_datatype(self, value) ==
    IF FirstAccepting(self.elements, value, 0) >= 0 THEN Done ELSE Raise("MKUserError")

\* Alternative._validate_value
Alternative_validate_value_inner(self, value) ==
    LET m == Alternative_matching_alternative(self, value)
    IN IF ~m.ok THEN m
       ELSE IF m.val = PyNone THEN Done
       ELSE [validate_value(self.elements[m.val.n + 1], value) EXCEPT !.val = PyNone]

-----------------------------------------------------------------------------
\* the outcomes of calling method f on every element in order: the tuple of
\* the results, or the first exception
RECURSIVE TupleOfCalls(_, _, _)
TupleOfCalls(outcomes, no, acc) ==
    IF no > Len(outcomes) THEN Return(PyTuple(acc))
    ELSE IF ~outcomes[no].ok THEN outcomes[no]
    ELSE TupleOfCalls(outcomes, no + 1, Append(acc, outcomes[no].val))

\* the first exception among the outcomes in order, None returned without one
FirstError(outcomes) ==
    IF \E i \in 1..Len(outcomes) : ~outcomes[i].ok
    THEN outcomes[CHOOSE i \in 1..Len(outcomes) :
                      /\ ~outcomes[i].ok
                      /\ \A j \in 1..(i - 1) : outcomes[j].ok]
    ELSE Done

\* Tuple.canonical_value
Tuple_canonical_value(self) ==
    TupleOfCalls([i \in 1..Len(self.elements) |-> canonical_value(self.elements[i])],
                 1, <<>>)

\* Tuple.default_value
Tuple_default_value(self) ==
    TupleOfCalls([i \in 1..Len(self.elements) |-> default_value(self.elements[i])],
                 1, <<>>)

\* Tuple.from_html_vars
Tuple_from_html_vars(self, r, varprefix) ==
    TupleOfCalls([i \in 1..Len(self.elements) |->
                     from_html_vars(self.elements[i], r,
                                    varprefix \o "_" \o ToString(i - 1))],
                 1, <<>>)

\* iter(value): the items a for loop or zip sees; a text of the model is
\* iterated as its characters only when it has at most one
Iter(value) ==
    CASE value.t \in {"NoneType", "int", "bool"} -> Raise("TypeError")
      [] value.t = "str" -> Return(PyList(IF StrOf(value) = "" THEN <<>> ELSE <<value>>))
      [] value.t = "dict" -> Return(PyList([i \in 1..Len(value.k) |-> PyStr(value.k[i])]))
      [] OTHER -> Return(PyList(value.v))

Min(a, b) == IF a < b THEN a ELSE b

\* Tuple._validate_value: zip stops at the shorter of elements and value
Tuple_validate_value_inner(self, value) ==
    LET items == Iter(value)
    IN IF ~items.ok THEN items
       ELSE FirstError([i \in 1..Min(Len(self.elements), Len(items.val.v)) |->
                           validate_value(self.elements[i], items.val.v[i])])

\* Tuple.validate_datatype
Tuple_validate_datatype(self, value) ==
    IF value.t # "tuple" THEN Raise("MKUserError")
    ELSE IF Len(value.v) # Len(self.elements) THEN Raise("MKUserError")
    ELSE FirstError([i \in 1..Len(self.elements) |->
                        validate_datatype(self.elements[i], value.v[i])])

-----------------------------------------------------------------------------
\* Dictionary.migrate
Dictionary_migrate(self, value) ==
    IF self.migrate # "none" THEN CallFn(self.migrate, value) ELSE Return(value)

\* the condition under which Dictionary treats the element param as required
IsRequired(self, param) ==
    ~self.optional_keys \/ param \in SeqToSet(self.required_keys)

\* Dictionary.canonical_value
RECURSIVE Dictionary_canonical_value_loop(_, _, _)
Dictionary_canonical_value_loop(self, i, acc) ==
    IF i > Len(self.keys) THEN Return(acc)
    ELSE IF ~IsRequired(self, self.keys[i])
    THEN Dictionary_canonical_value_loop(self, i + 1, acc)
    ELSE LET x == canonical_value(self.elements[i])
         IN IF ~x.ok THEN x
            ELSE Dictionary_canonical_value_loop(self, i + 1,
                                                 DictSet(acc, self.keys[i], x.val))

Dictionary_canonical_value(self) == Dictionary_canonical_value_loop(self, 1, EmptyDict)

\* Dictionary.default_value
RECURSIVE Dictionary_default_value_loop(_, _, _)
Dictionary_default_value_loop(self, i, acc) ==
    IF i > Len(self.keys) THEN Return(acc)
    ELSE IF ~(IsRequired(self, self.keys[i]) \/ self.keys[i] \in SeqToSet(self.default_keys))
    THEN Dictionary_default_value_loop(self, i + 1, acc)
    ELSE LET x == default_value(self.elements[i])
         IN IF ~x.ok THEN x
            ELSE Dictionary_default_value_loop(self, i + 1,
                                               DictSet(acc, self.keys[i], x.val))

Dictionary_default_value(self) == Dictionary_default_value_loop(self, 1, EmptyDict)

\* from_html_vars that forgets the required keys
RECURSIVE Dictionary_from_html_vars_no_required(_, _, _, _, _)
Dictionary_from_html_vars_no_required(self, r, varprefix, i, acc) ==
    IF i > Len(self.keys) THEN Return(acc)
    ELSE LET param == self.keys[i]
             vp == varprefix \o "_p_" \o param
         IN IF ~self.optional_keys \/ Truthy(get_checkbox(r, vp \o "_USE"))
            THEN LET x == from_html_vars(self.elements[i], r, vp)
                 IN IF ~x.ok THEN x
                    ELSE Dictionary_from_html_vars_no_required(self, r, varprefix, i + 1,
                                                               DictSet(acc, param, x.val))
            ELSE Dictionary_from_html_vars_no_required(self, r, varprefix, i + 1, acc)

\* Dictionary.from_html_vars
RECURSIVE Dictionary_from_html_vars_loop(_, _, _, _, _)
Dictionary_from_html_vars_loop(self, r, varprefix, i, acc) ==
    IF i > Len(self.keys) THEN Return(acc)
    ELSE LET param == self.keys[i]
             vp == varprefix \o "_p_" \o param
         IN IF \/ ~self.optional_keys
               \/ param \in SeqToSet(self.required_keys)
               \/ Truthy(get_checkbox(r, vp \o "_USE"))
            THEN LET x == from_html_vars(self.elements[i], r, vp)
                 IN IF ~x.ok THEN x
                    ELSE Dictionary_from_html_vars_loop(self, r, varprefix, i + 1,
                                                        DictSet(acc, param, x.val))
            ELSE Dictionary_from_html_vars_loop(self, r, varprefix, i + 1, acc)

Dictionary_from_html_vars(self, r, varprefix) ==
    Dictionary_from_html_vars_loop(self, r, varprefix, 1, EmptyDict)

\* validate_datatype without the check for exceeding keys
Dictionary_validate_datatype_no_exceeding(self, value) ==
    IF value.t # "dict" THEN Raise("MKUserError")
    ELSE FirstError([i \in 1..Len(self.keys) |->
             IF DictHas(value, self.keys[i])
             THEN validate_datatype(self.elements[i], DictGet(value, self.keys[i]))
             ELSE IF IsRequired(self, self.keys[i]) THEN Raise("MKUserError")
             ELSE Done])

\* Dictionary.validate_datatype, on the migrated value
Dictionary_validate_datatype_migrated(self, value) ==
    IF value.t # "dict" THEN Raise("MKUserError")
    ELSE LET per_element ==
                 FirstError([i \in 1..Len(self.keys) |->
                     IF DictHas(value, self.keys[i])
                     THEN validate_datatype(self.elements[i], DictGet(value, self.keys[i]))
                     ELSE IF IsRequired(self, self.keys[i]) THEN Raise("MKUserError")
                     ELSE Done])
             allowed_keys == SeqToSet(self.keys) \cup SeqToSet(self.ignored_keys)
         IN IF ~per_element.ok THEN per_element
            ELSE IF \E param \in SeqToSet(value.k) : param \notin allowed_keys
            THEN Raise("MKUserError")
            ELSE Done

\* Dictionary.validate_datatype
Dictionary_validate_datatype(self, value) ==
    LET migrated == Dictionary_migrate(self, value)
    IN IF ~migrated.ok THEN migrated
       ELSE Dictionary_validate_datatype_migrated(self, migrated.val)

\* param in value, for a text param
Contains(value, param) ==
    CASE value.t \in {"NoneType", "int", "bool"} -> Raise("TypeError")
      [] value.t = "dict" -> IF DictHas(value, param) THEN Return(PyTrue) ELSE Return(PyFalse)
      [] value.t = "str" -> IF StrOf(value) = param THEN Return(PyTrue) ELSE Return(PyFalse)
      [] OTHER -> IF PyStr(param) \in SeqToSet(value.v) THEN Return(PyTrue)
                  ELSE Return(PyFalse)

\* Dictionary._validate_value: no check that the value is a dict; value[param]
\* of a sequence or text raises TypeError
Dictionary_validate_value_inner(self, value) ==
    LET migrated == Dictionary_migrate(self, value)
    IN IF ~migrated.ok THEN migrated
       ELSE FirstError([i \in 1..Len(self.keys) |->
                LET has == Contains(migrated.val, self.keys[i])
                IN IF ~has.ok THEN has
                   ELSE IF has.val = PyTrue
                   THEN IF migrated.val.t # "dict" THEN Raise("TypeError")
                        ELSE [validate_value(self.elements[i],
                                             DictGet(migrated.val, self.keys[i]))
                                 EXCEPT !.val = PyNone]
                   ELSE IF IsRequired(self, self.keys[i]) THEN Raise("MKUserError")
                   ELSE Done])

-----------------------------------------------------------------------------
\* Transform.forth
Transform_forth(self, value) ==
    IF self.forth # "none" THEN CallFn(self.forth, value) ELSE Return(value)

\* Transform.back
Transform_back(self, value) ==
    IF self.back # "none" THEN CallFn(self.back, value) ELSE Return(value)

\* self.back(x) for the outcome of computing x
BackOf(self, x) == IF ~x.ok THEN x ELSE Transform_back(self, x.val)

\* Transform.canonical_value
Transform_canonical_value(self) == BackOf(self, canonical_value(self.elements[1]))

\* Transform.default_value
Transform_default_value(self) == BackOf(self, default_value(self.elements[1]))

\* from_html_vars that returns the wrapped result without back
Transform_from_html_vars_no_back(self, r, varprefix) ==
    from_html_vars(self.elements[1], r, varprefix)

\* Transform.from_html_vars
Transform_from_html_vars(self, r, varprefix) ==
    BackOf(self, from_html_vars(self.elements[1], r, varprefix))

\* Transform.validate_datatype
Transform_validate_datatype(self, value) ==
    LET f == Transform_forth(self, value)
    IN IF ~f.ok THEN f ELSE validate_datatype(self.elements[1], f.val)

\* Transform._validate_value
Transform_validate_value_inner(self, value) ==
    LET f == Transform_forth(self, value)
    IN IF ~f.ok THEN f ELSE validate_value(self.elements[1], f.val)

-----------------------------------------------------------------------------
\* a function object as a value (a default_value that is not called)
PyFunction == [t |-> "function", n |-> 0, k |-> <<>>, v |-> <<>>]

\* CascadingDropdown.choices: the entries (val, has_vs, vs), the
\* no_preselect entry first when configured
CascadingDropdown_choices(self) ==
    LET given == [i \in 1..Len(self.choice_vals) |->
                      [val |-> self.choice_vals[i], has_vs |-> self.has_vs[i],
                       vs |-> self.elements[i]]]
    IN IF self.no_preselect
       THEN <<[val |-> self.value, has_vs |-> FALSE, vs |-> ValueSpec(NoDefault, "none")]>>
            \o given
       ELSE given

\* self._encoding_type((x, y))
Encoded(self, x, y) == IF self.encoding = "list" THEN PyList(<<x, y>>) ELSE PyTuple(<<x, y>>)

\* isinstance(value, self._encoding_type)
IsEncoded(self, value) == value.t = self.encoding

\* the value built from the first choice by method f of its valuespec
FirstChoice(self, choices, sub) ==
    IF Len(choices) = 0 THEN Return(PyNone)
    ELSE IF choices[1].has_vs
    THEN IF ~sub.ok THEN sub ELSE Return(Encoded(self, choices[1].val, sub.val))
    ELSE Return(choices[1].val)

\* CascadingDropdown.canonical_value
CascadingDropdown_canonical_value(self) ==
    LET choices == CascadingDropdown_choices(self)
    IN FirstChoice(self, choices,
                   IF Len(choices) > 0 /\ choices[1].has_vs
                   THEN canonical_value(choices[1].vs) ELSE Done)

\* CascadingDropdown.default_value: a function given as default is returned
\* uncalled
CascadingDropdown_default_value(self) ==
    LET choices == CascadingDropdown_choices(self)
    IN CASE self.dflt.kind = "unset" ->
                FirstChoice(self, choices,
                            IF Len(choices) > 0 /\ choices[1].has_vs
                            THEN default_value(choices[1].vs) ELSE Done)
         [] self.dflt.kind = "value" -> Return(self.dflt.v)
         [] OTHER -> Return(PyFunction)

\* CascadingDropdown.from_html_vars
CascadingDropdown_from_html_vars(self, r, varprefix) ==
    LET choices == CascadingDropdown_choices(self)
        parsed == int(request_var(r, varprefix \o "_sel", ""))
        sel == IF parsed.ok THEN parsed.val.n ELSE 0
        i == ListIndex(Len(choices), sel)
    IN IF Len(choices) = 0 THEN default_value(self)
       ELSE IF i < 0 THEN Raise("IndexError")
       ELSE IF choices[i + 1].has_vs
       THEN LET y == from_html_vars(choices[i + 1].vs, r, varprefix \o "_" \o ToString(sel))
            IN IF ~y.ok THEN y ELSE Return(Encoded(self, choices[i + 1].val, y.val))
       ELSE Return(choices[i + 1].val)

\* value == val or (isinstance(value, self._encoding_type) and value[0] == val):
\* value[0] of an empty sequence raises IndexError
ChoiceMatches(self, value, val) ==
    IF value = val THEN Return(PyTrue)
    ELSE IF ~IsEncoded(self, value) THEN Return(PyFalse)
    ELSE IF Len(value.v) = 0 THEN Raise("IndexError")
    ELSE IF value.v[1] = val THEN Return(PyTrue)
    ELSE Return(PyFalse)

\* CascadingDropdown.validate_datatype
RECURSIVE CascadingDropdown_validate_datatype_loop(_, _, _, _)
CascadingDropdown_validate_datatype_loop(self, choices, value, nr) ==
    IF nr > Len(choices) THEN Raise("MKUserError")
    ELSE LET m == ChoiceMatches(self, value, choices[nr].val)
         IN IF ~m.ok THEN m
            ELSE IF m.val = PyFalse
            THEN CascadingDropdown_validate_datatype_loop(self, choices, value, nr + 1)
            ELSE IF ~choices[nr].has_vs THEN Done
            ELSE IF ~IsEncoded(self, value) \/ Len(value.v) # 2 THEN Raise("MKUserError")
            ELSE [validate_datatype(choices[nr].vs, value.v[2]) EXCEPT !.val = PyNone]

CascadingDropdown_validate_datatype(self, value) ==
    CascadingDropdown_validate_datatype_loop(self, CascadingDropdown_choices(self), value, 1)

\* value[1] of CascadingDropdown._validate_value
Second(value) ==
    CASE value.t \in {"NoneType", "int", "bool"} -> Raise("TypeError")
      [] value.t = "dict" -> Raise("KeyError")
      [] value.t = "str" -> Raise("IndexError")
      [] Len(value.v) < 2 -> Raise("IndexError")
      [] OTHER -> Return(value.v[2])

\* CascadingDropdown._validate_value
RECURSIVE CascadingDropdown_validate_value_loop(_, _, _, _)
CascadingDropdown_validate_value_loop(self, choices, value, nr) ==
    IF nr > Len(choices) THEN Raise("MKUserError")
    ELSE LET m == ChoiceMatches(self, value, choices[nr].val)
         IN IF ~m.ok THEN m
            ELSE IF m.val = PyFalse
            THEN CascadingDropdown_validate_value_loop(self, choices, value, nr + 1)
            ELSE LET y == IF choices[nr].has_vs THEN Second(value) ELSE Done
                     sub == IF ~y.ok THEN y
                            ELSE IF choices[nr].has_vs
                            THEN validate_value(choices[nr].vs, y.val)
                            ELSE Done
                 IN IF ~sub.ok THEN sub ELSE custom_validate(self, value)

CascadingDropdown_validate_value_inner(self, value) ==
    IF self.no_preselect /\ value = self.value THEN Raise("MKUserError")
    ELSE CascadingDropdown_validate_value_loop(self, CascadingDropdown_choices(self),
                                               value, 1)

-----------------------------------------------------------------------------
(* value_to_text of the classes that render without HTML helpers *)

RECURSIVE repr(_)
\* ", ".join of the texts
RECURSIVE Join(_)
Join(texts) ==
    IF Len(texts) = 0 THEN ""
    ELSE IF Len(texts) = 1 THEN texts[1]
    ELSE texts[1] \o ", " \o Join(Tail(texts))

\* repr(x)
repr(x) ==
    CASE x.t = "NoneType" -> "None"
      [] x.t = "int" -> ToString(x.n)
      [] x.t = "bool" -> IF x.n = 1 THEN "True" ELSE "False"
      [] x.t = "float" -> ToString(x.n) \o ".0"
      [] x.t = "str" -> "'" \o StrOf(x) \o "'"
      [] x.t = "tuple" ->
            IF Len(x.v) = 1 THEN "(" \o repr(x.v[1]) \o ",)"
            ELSE "(" \o Join([i \in 1..Len(x.v) |-> repr(x.v[i])]) \o ")"
      [] x.t = "list" -> "[" \o Join([i \in 1..Len(x.v) |-> repr(x.v[i])]) \o "]"
      [] x.t = "dict" ->
            "{" \o Join([i \in 1..Len(x.k) |-> "'" \o x.k[i] \o "': " \o repr(x.v[i])]) \o "}"
      [] OTHER -> "<function>"

\* str(x)
str(x) == IF x.t = "str" THEN StrOf(x) ELSE repr(x)

RECURSIVE value_to_text(_, _)

\* ValueSpec.value_to_text
ValueSpec_value_to_text(self, value) == Return(PyStr(repr(value)))

\* FixedValue.value_to_text, without totext
FixedValue_value_to_text(self, value) == Return(PyStr(str(value)))

\* Integer.value_to_text with the default display_format "%d", no
\* thousand_sep and no unit: "%d" % value formats a number, or the single
\* number of a 1-tuple
Integer_value_to_text(self, value) ==
    IF IsNumber(value) THEN Return(PyStr(ToString(value.n)))
    ELSE IF value.t = "tuple" /\ Len(value.v) = 1 /\ IsNumber(value.v[1])
    THEN Return(PyStr(ToString(value.v[1].n)))
    ELSE Raise("TypeError")

\* Float.value_to_text with the default display_format "%.2f", no
\* thousand_sep, no unit and the decimal separator "."
Float_value_to_text(self, value) ==
    LET text == Integer_value_to_text(self, value)
    IN IF ~text.ok THEN text ELSE Return(PyStr(StrOf(text.val) \o ".00"))

\* Percentage.value_to_text with the default display_format "%.1f"
Percentage_value_to_text(self, value) ==
    LET text == Integer_value_to_text(self, value)
    IN IF ~text.ok THEN text ELSE Return(PyStr(StrOf(text.val) \o ".0%"))

\* Transform.value_to_text
Transform_value_to_text(self, value) ==
    LET f == Transform_forth(self, value)
    IN IF ~f.ok THEN f ELSE value_to_text(self.elements[1], f.val)

\* the classes whose value_to_text is modelled
HasValueToText(self) ==
    \/ self.cls \in {"ValueSpec", "FixedValue", "Integer", "Float", "Percentage"}
    \/ self.cls = "Transform" /\ self.elements[1].cls \in {"ValueSpec", "FixedValue", "Integer"}

value_to_text(self, value) ==
    CASE self.cls = "FixedValue" -> FixedValue_value_to_text(self, value)
      [] self.cls = "Integer" -> Integer_value_to_text(self, value)
      [] self.cls = "Float" -> Float_value_to_text(self, value)
      [] self.cls = "Percentage" -> Percentage_value_to_text(self, value)
      [] self.cls = "Transform" -> Transform_value_to_text(self, value)
      [] OTHER -> ValueSpec_value_to_text(self, value)

-----------------------------------------------------------------------------
(* DropdownChoice *)

RECURSIVE PyEq(_, _)
\* a == b: numbers and booleans compare by number, sequences of one type
\* component by component
PyEq(a, b) ==
    IF IsNumber(a) /\ IsNumber(b) THEN a.n = b.n
    ELSE IF a.t # b.t THEN FALSE
    ELSE IF a.t \in {"tuple", "list", "dict"}
    THEN /\ a.k = b.k
         /\ Len(a.v) = Len(b.v)
         /\ \A i \in 1..Len(a.v) : PyEq(a.v[i], b.v[i])
    ELSE a = b

RECURSIVE sorted(_)
\* sorted(keys) for a sequence of numbers
sorted(keys) ==
    IF Len(keys) = 0 THEN <<>>
    ELSE LET least == CHOOSE i \in 1..Len(keys) :
                          \A j \in 1..Len(keys) :
                              keys[i].n < keys[j].n \/ (keys[i].n = keys[j].n /\ i <= j)
         IN <<keys[least]>>
            \o sorted([j \in 1..(Len(keys) - 1) |-> IF j < least THEN keys[j] ELSE keys[j + 1]])

\* ListChoice.dict_choices: the values are "%s" % type_id, in the order of
\* the sorted keys
dict_choices(keys) ==
    LET ordered == sorted(keys)
    IN [i \in 1..Len(ordered) |-> PyStr(ToString(ordered[i].n))]

\* DropdownChoice.choices: the values of the entries, the no_preselect entry
\* first when configured
DropdownChoice_choices(self) ==
    LET given == IF self.choices_kind = "dict" THEN dict_choices(self.choice_vals)
                 ELSE self.choice_vals
    IN IF self.no_preselect THEN <<self.value>> \o given ELSE given

\* DropdownChoice.canonical_value
DropdownChoice_canonical_value(self) ==
    LET choices == DropdownChoice_choices(self)
    IN IF Len(choices) > 0 THEN Return(choices[1]) ELSE Return(PyNone)

\* DropdownChoice.option_id: the hex digest of sha256 over repr(val), one
\* text per repr
option_id(val) == "sha256<" \o repr(val) \o ">"

\* DropdownChoice._option_for_html
option_for_html(self, value) ==
    IF self.encode_value THEN PyStr(option_id(value)) ELSE value

\* html.request.var(varprefix): the text of the variable, None without it
selected_value(r, varprefix) ==
    IF request_has_var(r, varprefix) THEN PyStr(r[varprefix]) ELSE PyNone

\* DropdownChoice._is_selected_option_from_html
is_selected_option_from_html(self, r, varprefix, val) ==
    PyEq(selected_value(r, varprefix), option_for_html(self, val))

\* raise MKUserError(varprefix, message): val names the message
MKUserError(message) == [Raise("MKUserError") EXCEPT !.val = PyStr(message)]

\* from_html_vars that raises for an unknown option also when invalid_choice
\* is 'replace'
DropdownChoice_from_html_vars_no_replace(self, r, varprefix) ==
    LET choices == DropdownChoice_choices(self)
        hits == {i \in 1..Len(choices) :
                     is_selected_option_from_html(self, r, varprefix, choices[i])}
    IN IF hits # {} THEN Return(choices[CHOOSE i \in hits : \A j \in hits : i <= j])
       ELSE IF Len(choices) = 0 THEN MKUserError("empty_text")
       ELSE MKUserError("invalid_choice_error")

\* DropdownChoice.from_html_vars: the value of the first entry whose option
\* is the selected one
DropdownChoice_from_html_vars(self, r, varprefix) ==
    LET choices == DropdownChoice_choices(self)
        hits == {i \in 1..Len(choices) :
                     is_selected_option_from_html(self, r, varprefix, choices[i])}
    IN IF hits # {} THEN Return(choices[CHOOSE i \in hits : \A j \in hits : i <= j])
       ELSE IF self.invalid_choice = "replace" THEN default_value(self)
       ELSE IF Len(choices) = 0 THEN MKUserError("empty_text")
       ELSE MKUserError("invalid_choice_error")

\* DropdownChoice._value_is_invalid
value_is_invalid(self, value) ==
    LET choices == DropdownChoice_choices(self)
    IN ~\E i \in 1..Len(choices) : PyEq(choices[i], value)

\* DropdownChoice._validate_value
DropdownChoice_validate_value_inner(self, value) ==
    IF self.no_preselect /\ PyEq(value, self.value) THEN MKUserError("no_preselect_error")
    ELSE IF self.invalid_choice = "complain" /\ value_is_invalid(self, value)
    THEN IF value # PyNone THEN MKUserError("invalid_choice_error")
         ELSE MKUserError("empty_text")
    ELSE Done

-----------------------------------------------------------------------------
(* Method dispatch by class *)

canonical_value(self) ==
    CASE self.cls = "FixedValue" -> FixedValue_canonical_value(self)
      [] self.cls = "Integer" -> Integer_canonical_value(self)
      [] self.cls \in {"Float", "Percentage"} -> Float_canonical_value(self)
      [] self.cls = "Timeofday" -> Timeofday_canonical_value(self)
      [] self.cls = "FileUpload" -> FileUpload_canonical_value(self)
      [] self.cls = "Optional" -> Optional_canonical_value(self)
      [] self.cls = "Alternative" -> Alternative_canonical_value(self)
      [] self.cls = "Tuple" -> Tuple_canonical_value(self)
      [] self.cls = "Dictionary" -> Dictionary_canonical_value(self)
      [] self.cls = "Transform" -> Transform_canonical_value(self)
      [] self.cls = "CascadingDropdown" -> CascadingDropdown_canonical_value(self)
      [] self.cls = "DropdownChoice" -> DropdownChoice_canonical_value(self)
      [] OTHER -> ValueSpec_canonical_value(self)

default_value(self) ==
    CASE self.cls = "Alternative" -> Alternative_default_value(self)
      [] self.cls = "Tuple" -> Tuple_default_value(self)
      [] self.cls = "Dictionary" -> Dictionary_default_value(self)
      [] self.cls = "Transform" -> Transform_default_value(self)
      [] self.cls = "CascadingDropdown" -> CascadingDropdown_default_value(self)
      [] OTHER -> ValueSpec_default_value(self)

from_html_vars(self, r, varprefix) ==
    CASE self.cls = "FixedValue" -> FixedValue_from_html_vars(self, r, varprefix)
      [] self.cls = "Integer" -> Integer_from_html_vars(self, r, varprefix)
      [] self.cls \in {"Float", "Percentage"} -> Float_from_html_vars(self, r, varprefix)
      [] self.cls = "Timeofday" -> Timeofday_from_html_vars(self, r, varprefix)
      [] self.cls = "FileUpload" -> FileUpload_from_html_vars(self, r, varprefix)
      [] self.cls = "Optional" -> Optional_from_html_vars(self, r, varprefix)
      [] self.cls = "Alternative" -> Alternative_from_html_vars(self, r, varprefix)
      [] self.cls = "Tuple" -> Tuple_from_html_vars(self, r, varprefix)
      [] self.cls = "Dictionary" -> Dictionary_from_html_vars(self, r, varprefix)
      [] self.cls = "Transform" -> Transform_from_html_vars(self, r, varprefix)
      [] self.cls = "CascadingDropdown" ->
            CascadingDropdown_from_html_vars(self, r, varprefix)
      [] self.cls = "DropdownChoice" -> DropdownChoice_from_html_vars(self, r, varprefix)
      [] OTHER -> ValueSpec_from_html_vars(self, r, varprefix)

validate_datatype(self, value) ==
    CASE self.cls = "FixedValue" -> FixedValue_validate_datatype(self, value)
      [] self.cls = "Integer" -> Integer_validate_datatype(self, value)
      [] self.cls = "Float" -> Float_validate_datatype(self, value)
      [] self.cls = "Percentage" -> Percentage_validate_datatype(self, value)
      [] self.cls = "Timeofday" -> Timeofday_validate_datatype(self, value)
      [] self.cls = "Optional" -> Optional_validate_datatype(self, value)
      [] self.cls = "Alternative" -> Alternative_validate_datatype(self, value)
      [] self.cls = "Tuple" -> Tuple_validate_datatype(self, value)
      [] self.cls = "Dictionary" -> Dictionary_validate_datatype(self, value)
      [] self.cls = "Transform" -> Transform_validate_datatype(self, value)
      [] self.cls = "CascadingDropdown" -> CascadingDropdown_validate_datatype(self, value)
      [] OTHER -> ValueSpec_validate_datatype(self, value)

\* self._validate_value(value, varprefix)
validate_value_inner(self, value) ==
    CASE self.cls \in {"Integer", "Float", "Percentage"} ->
            Integer_validate_value_inner(self, value)
      [] self.cls = "Timeofday" -> Timeofday_validate_value_inner(self, value)
      [] self.cls = "FileUpload" -> FileUpload_validate_value_inner(self, value)
      [] self.cls = "Optional" -> Optional_validate_value_inner(self, value)
      [] self.cls = "Alternative" -> Alternative_validate_value_inner(self, value)
      [] self.cls = "Tuple" -> Tuple_validate_value_inner(self, value)
      [] self.cls = "Dictionary" -> Dictionary_validate_value_inner(self, value)
      [] self.cls = "Transform" -> Transform_validate_value_inner(self, value)
      [] self.cls = "CascadingDropdown" ->
            CascadingDropdown_validate_value_inner(self, value)
      [] self.cls = "DropdownChoice" -> DropdownChoice_validate_value_inner(self, value)
      [] OTHER -> ValueSpec_validate_value_inner(self, value)

\* validate_value is defined by ValueSpec alone
validate_value(self, value) == ValueSpec_validate_value(self, value)

-----------------------------------------------------------------------------
(* The check parameter plugins jvm_threads and emcvnx_storage_pools        *)

\* _parameter_valuespec_jvm_threads()
parameter_valuespec_jvm_threads ==
    Tuple(<<Integer(PyNone, PyNone, DefaultIs(PyInt(80)), "none"),
            Integer(PyNone, PyNone, DefaultIs(PyInt(100)), "none")>>,
          NoDefault, "none")

\* the valuespec emcvnx_storage_pools hands to register_check_parameters
parameter_valuespec_emcvnx_storage_pools ==
    Dictionary(<<"percent_full">>,
               <<Tuple(<<Percentage(FALSE, Percentage_minvalue, Percentage_maxvalue,
                                    DefaultIs(PyFloat(70)), "none"),
                         Percentage(FALSE, Percentage_minvalue, Percentage_maxvalue,
                                    DefaultIs(PyFloat(90)), "none")>>,
                       NoDefault, "none")>>,
               OptBool(TRUE), <<>>, <<>>, <<>>, "none", NoDefault, "none")

\* the registered check groups
check_group_names == {"jvm_threads", "emcvnx_storage_pools"}

\* the parameter valuespec a check group is registered with: the one its
\* plugin gives to rulespec_registry.register or register_check_parameters
registered_parameter_valuespec(check_group_name) ==
    CASE check_group_name = "jvm_threads" -> parameter_valuespec_jvm_threads
      [] check_group_name = "emcvnx_storage_pools" ->
            parameter_valuespec_emcvnx_storage_pools

\* the registered parameter valuespecs and the valuespecs they are made of
RECURSIVE Parts(_)
Parts(self) == {self} \cup UNION {Parts(self.elements[i]) : i \in 1..Len(self.elements)}

ParameterSpecs ==
    UNION {Parts(registered_parameter_valuespec(name)) : name \in check_group_names}

-----------------------------------------------------------------------------
(* Inputs: the values handed to the validation methods and the requests    *)
(* submitted to from_html_vars                                             *)

\* tuples and lists handed to validation have up to MaxLen components
MaxLen == 2

Ints == {PyInt(i) : i \in (0 - 1)..MaxInt}
Atoms == {PyNone, PyStr(""), PyStr("a")} \cup Ints
FewAtoms == {PyNone, PyInt(0), PyInt(1), PyStr("a")}

RECURSIVE SeqsUpTo(_, _)
\* the sequences over S of length at most n
SeqsUpTo(S, n) ==
    IF n = 0 THEN {<<>>}
    ELSE LET shorter == SeqsUpTo(S, n - 1)
         IN shorter \cup {Append(q, x) : q \in shorter, x \in S}

\* the keys of the dicts handed to validation
DictKeys == {"a", "b", "c"}

\* the dicts with keys among DictKeys and values in S
DictsOver(S) ==
    LET Sub(K) == SelectSeq(KeyOrder, LAMBDA key : key \in K)
    IN UNION {{PyDict(Sub(K), [i \in 1..Len(Sub(K)) |-> f[Sub(K)[i]]]) : f \in [K -> S]} :
              K \in SUBSET DictKeys}

TimeValues ==
    {PyTuple(<<PyInt(h), PyInt(m)>>) : h \in {23, 24, 25}, m \in {0, 1, 59, 60}}

FileValues ==
    {PyTuple(<<PyStr(name), PyStr("text/plain"), PyStr(content)>>) :
        name \in {"", "f.txt", "f.png"}, content \in {"", "a"}}

FlatValues ==
    Atoms
    \cup {PyTuple(q) : q \in SeqsUpTo(FewAtoms, MaxLen)}
    \cup {PyTuple(q) : q \in SeqsUpTo({PyInt(0), PyInt(1)}, MaxLen + 1)}
    \cup {PyList(q) : q \in SeqsUpTo({PyInt(0), PyStr("a")}, MaxLen)}
    \cup DictsOver({PyInt(0), PyInt(1), PyStr("a")})

\* pairs (x, y) in both encodings with a structured second component
PairValues ==
    {PyTuple(<<x, y>>) : x \in {PyStr("a"), PyStr("b")},
                         y \in {PyTuple(<<PyInt(0), PyInt(1)>>), PyTuple(<<PyInt(0)>>)}}

Values == FlatValues \cup TimeValues \cup FileValues \cup PairValues

\* the texts a request may give to a variable of each kind
IndexTexts == {ToString(i) : i \in (0 - MaxSel - 1)..MaxSel} \cup {"x"}
IntegerTexts == {"0", "1", "x"}
TimeTexts == {" ", "00:35", "24:00", "2", "x"}
FileTexts == {"", "f.txt"}
CheckboxTexts == {"on"}
\* the options a dropdown may submit: the ids of values, or plain texts
DropdownTexts ==
    {option_id(x) : x \in {PyStr("a"), PyStr("1"), PyInt(1), PyNone, PyTrue}}
    \cup {"a", "1", "x"}

FloatTexts == {"70", "90.0", "102", "x"}

RECURSIVE ReqVars(_, _)
\* the request variables valuespec self reads under varprefix, each with
\* the texts the model may submit for it
ReqVars(self, varprefix) ==
    LET Sub(suffixes) ==
            UNION {ReqVars(self.elements[i], varprefix \o suffixes[i]) :
                   i \in 1..Len(self.elements)}
    IN CASE self.cls = "Integer" -> {[name |-> varprefix, texts |-> IntegerTexts]}
         [] self.cls \in {"Float", "Percentage"} ->
                {[name |-> varprefix, texts |-> FloatTexts]}
         [] self.cls = "Timeofday" -> {[name |-> varprefix, texts |-> TimeTexts]}
         [] self.cls = "FileUpload" -> {[name |-> varprefix, texts |-> FileTexts]}
         [] self.cls = "Optional" ->
                {[name |-> varprefix \o "_use", texts |-> CheckboxTexts]}
                \cup Sub(<<"_value">>)
         [] self.cls = "Alternative" ->
                {[name |-> varprefix \o "_use", texts |-> IndexTexts]}
                \cup Sub([i \in 1..Len(self.elements) |-> "_" \o ToString(i - 1)])
         [] self.cls = "Tuple" ->
                Sub([i \in 1..Len(self.elements) |-> "_" \o ToString(i - 1)])
         [] self.cls = "Dictionary" ->
                {[name |-> varprefix \o "_p_" \o self.keys[i] \o "_USE",
                  texts |-> CheckboxTexts] : i \in 1..Len(self.keys)}
                \cup Sub([i \in 1..Len(self.keys) |-> "_p_" \o self.keys[i]])
         [] self.cls = "Transform" -> Sub(<<"">>)
         [] self.cls = "DropdownChoice" -> {[name |-> varprefix, texts |-> DropdownTexts]}
         [] self.cls = "CascadingDropdown" ->
                {[name |-> varprefix \o "_sel", texts |-> IndexTexts]}
                \cup Sub([i \in 1..Len(self.elements) |->
                             "_" \o ToString(i - 1 + IF self.no_preselect THEN 1 ELSE 0)])
         [] OTHER -> {}

RECURSIVE RequestsOver(_)
\* the requests that give each variable of V one of its texts or leave it out
RequestsOver(V) ==
    IF V = {} THEN {<<>>}
    ELSE LET x == CHOOSE x \in V : TRUE
             rest == RequestsOver(V \ {x})
         IN rest \cup {(x.name :> t) @@ r : t \in x.texts, r \in rest}

Requests(self) == RequestsOver(ReqVars(self, "v"))

\* numbers around the limits of a percentage and the levels of jvm_threads
LevelValues ==
    {PyFloat(x) : x \in FloatNumbers} \cup {PyInt(70), PyInt(80), PyInt(100), PyTrue}

\* levels, and parameter dicts with levels or something else
ParameterValues ==
    LET pairs == {PyTuple(<<warn, crit>>) : warn \in LevelValues, crit \in LevelValues}
        levels == pairs \cup {PyNone, PyTuple(<<PyFloat(70)>>),
                              PyTuple(<<PyFloat(70), PyFloat(90), PyFloat(90)>>),
                              PyList(<<PyFloat(70), PyFloat(90)>>)}
    IN LevelValues \cup levels \cup {PyDict(<<"percent_full">>, <<x>>) : x \in levels}

\* the values handed to the validation methods of self: a dropdown is also
\* given a boolean and the text of a number, a check parameter valuespec
\* also levels
ValuesFor(self) ==
    IF self.cls = "DropdownChoice" THEN Values \cup {PyTrue, PyStr("1")}
    ELSE IF self \in ParameterSpecs THEN Values \cup ParameterValues
    ELSE Values

-----------------------------------------------------------------------------
(* The state machine: a valuespec object is constructed, then its methods  *)
(* are called with any input.                                              *)

DefaultArgs ==
    {NoDefault, DefaultIs(PyInt(1)), DefaultIs(PyNone), DefaultFn(PyInt(2)), DefaultRaises}
ValidateArgs == {"none", "accept", "reject", "reject_none"}
MinMaxArgs == {PyNone, PyInt(0), PyInt(1)}

\* the objects without sub-valuespecs
PlainSpecs ==
    {ValueSpec(d, f) : d \in DefaultArgs, f \in ValidateArgs}
    \cup {FixedValue(x, d, f) : x \in {PyNone, PyStr("a")}, d \in DefaultArgs,
                                f \in ValidateArgs}
    \cup {Integer(lo, hi, d, f) : lo \in MinMaxArgs \cup {PyInt(0 - 1)}, hi \in MinMaxArgs,
                                  d \in DefaultArgs, f \in {"none", "reject"}}
    \cup {Timeofday(a, e, d, f) : a \in BOOLEAN, e \in BOOLEAN,
                                  d \in {NoDefault, DefaultRaises}, f \in {"none", "accept"}}
    \cup {FileUpload(e, x, <<".txt">>, c, d, "none") :
              e \in BOOLEAN, x \in BOOLEAN, c \in BOOLEAN, d \in {NoDefault, DefaultRaises}}

Start(S) ==
    /\ vs \in S
    /\ op = "idle"
    /\ req = <<>>
    /\ arg = PyNone
    /\ result = Done

Init == Start(PlainSpecs)

CanonicalValue ==
    /\ op = "idle"
    /\ op' = "canonical_value"
    /\ result' = canonical_value(vs)
    /\ req' = <<>>
    /\ arg' = PyNone
    /\ UNCHANGED vs

DefaultValue ==
    /\ op = "idle"
    /\ op' = "default_value"
    /\ result' = default_value(vs)
    /\ req' = <<>>
    /\ arg' = PyNone
    /\ UNCHANGED vs

FromHtmlVars ==
    \E r \in Requests(vs) :
        /\ op = "idle"
        /\ op' = "from_html_vars"
        /\ result' = from_html_vars(vs, r, "v")
        /\ req' = r
        /\ arg' = PyNone
        /\ UNCHANGED vs

ValidateDatatype ==
    \E value \in ValuesFor(vs) :
        /\ op = "idle"
        /\ op' = "validate_datatype"
        /\ result' = validate_datatype(vs, value)
        /\ req' = <<>>
        /\ arg' = value
        /\ UNCHANGED vs

ValidateValue ==
    \E value \in ValuesFor(vs) :
        /\ op = "idle"
        /\ op' = "validate_value"
        /\ result' = validate_value(vs, value)
        /\ req' = <<>>
        /\ arg' = value
        /\ UNCHANGED vs

\* the call returns, and the object is ready for the next call
Finish ==
    /\ op # "idle"
    /\ op' = "idle"
    /\ req' = <<>>
    /\ arg' = PyNone
    /\ result' = Done
    /\ UNCHANGED vs

Next ==
    \/ CanonicalValue
    \/ DefaultValue
    \/ FromHtmlVars
    \/ ValidateDatatype
    \/ ValidateValue
    \/ Finish

Spec == Init /\ [][Next]_vars

-----------------------------------------------------------------------------
(* Objects with sub-valuespecs, and a specification for each family        *)

\* the sub-valuespecs used inside the containers
Leaves ==
    {Integer(PyNone, PyNone, NoDefault, "none"),
     Integer(PyInt(0), PyInt(1), DefaultIs(PyInt(1)), "none"),
     FixedValue(PyStr("a"), NoDefault, "none"),
     ValueSpec(NoDefault, "reject")}

FewLeaves ==
    {Integer(PyNone, PyNone, NoDefault, "none"),
     Integer(PyInt(0), PyInt(1), DefaultIs(PyInt(1)), "none"),
     FixedValue(PyStr("a"), NoDefault, "none")}

\* the elements of the dictionaries: one of them raises TypeError for a value
\* that is no number
DictionaryLeaves ==
    FewLeaves
    \cup {Transform(Integer(PyNone, PyNone, NoDefault, "none"), "none", "dec", NoDefault,
                    "none")}

DictionarySpecs ==
    {Dictionary(<<"a", "b">>, <<x, y>>, o, q, i, <<>>, m, NoDefault, f) :
        x \in DictionaryLeaves, y \in DictionaryLeaves,
        o \in {OptBool(TRUE), OptBool(FALSE), OptList(<<>>), OptList(<<"a">>),
               OptList(<<"b">>)},
        q \in {<<>>, <<"a">>}, i \in {<<>>, <<"c">>},
        m \in {"none", "pair_to_dict"}, f \in {"none"}}

TupleSpecs ==
    {Tuple(e, d, f) : e \in SeqsUpTo(Leaves, MaxLen),
                      d \in {NoDefault, DefaultIs(PyTuple(<<PyInt(1), PyInt(1)>>))},
                      f \in {"none", "reject"}}

TransformSpecs ==
    {Transform(x, b, g, d, f) : x \in Leaves, b \in {"none", "inc"}, g \in {"none", "dec"},
                                d \in {NoDefault, DefaultIs(PyInt(1))},
                                f \in {"none", "reject"}}

AlternativeSpecs ==
    {Alternative(e, m, d, f) : e \in SeqsUpTo(Leaves, MaxLen),
                               m \in {"none", "zero", "by_type"},
                               d \in {NoDefault, DefaultFn(PyInt(2))},
                               f \in {"none", "reject"}}

OptionalSpecs ==
    {Optional(x, n, v, d, f) : x \in Leaves, n \in BOOLEAN, v \in {PyNone, PyInt(0)},
                               d \in {NoDefault, DefaultIs(PyInt(1))},
                               f \in {"none", "reject", "reject_none"}}

\* choice lists of up to MaxLen entries over the values "a" and "b"
ChoiceLists ==
    {c \in SeqsUpTo([val : {PyStr("a"), PyStr("b")}, has_vs : BOOLEAN,
                     vs : {Integer(PyNone, PyNone, NoDefault, "none")}], MaxLen) :
        \A i, j \in 1..Len(c) : c[i].val = c[j].val => i = j}

CascadingDropdownSpecs ==
    {CascadingDropdown([i \in 1..Len(c) |-> c[i].val], [i \in 1..Len(c) |-> c[i].has_vs],
                       [i \in 1..Len(c) |-> c[i].vs], e, n, PyNone, d, f) :
        c \in ChoiceLists, e \in {"tuple", "list"}, n \in BOOLEAN,
        d \in {NoDefault, DefaultIs(PyStr("a"))}, f \in {"none", "reject"}}

\* the choices of the dropdowns: lists of up to MaxLen values, a function
\* returning a list, and dicts with the keys 0 and 1 in any order
DropdownChoices ==
    {[kind |-> "list", vals |-> c] : c \in SeqsUpTo({PyStr("a"), PyInt(1)}, MaxLen)}
    \cup {[kind |-> "function", vals |-> <<PyStr("a")>>]}
    \cup {[kind |-> "dict", vals |-> c] :
              c \in {<<>>, <<PyInt(0)>>, <<PyInt(1)>>, <<PyInt(0), PyInt(1)>>,
                     <<PyInt(1), PyInt(0)>>}}

DropdownChoiceSpecs ==
    {DropdownChoice(c.kind, c.vals, i, n, PyNone, e, d, f) :
        c \in DropdownChoices, i \in {"complain", "replace", "none"}, n \in BOOLEAN,
        e \in BOOLEAN, d \in {NoDefault, DefaultIs(PyInt(1))}, f \in {"none", "reject"}}

ValueToText ==
    \E value \in Values :
        /\ op = "idle"
        /\ HasValueToText(vs)
        /\ op' = "value_to_text"
        /\ result' = value_to_text(vs, value)
        /\ req' = <<>>
        /\ arg' = value
        /\ UNCHANGED vs

NextWithText ==
    \/ Next
    \/ ValueToText

SpecDictionary == Start(DictionarySpecs) /\ [][Next]_vars
SpecTuple == Start(TupleSpecs) /\ [][Next]_vars
SpecTransform == Start(TransformSpecs) /\ [][NextWithText]_vars
SpecAlternative == Start(AlternativeSpecs) /\ [][Next]_vars
SpecOptional == Start(OptionalSpecs) /\ [][Next]_vars
SpecCascadingDropdown == Start(CascadingDropdownSpecs) /\ [][Next]_vars
SpecDropdownChoice == Start(DropdownChoiceSpecs) /\ [][Next]_vars
SpecCheckParameters == Start(ParameterSpecs) /\ [][Next]_vars

-----------------------------------------------------------------------------
(* The check API helpers of cmk_base.check_api that the unit tests          *)
(* exercise.  Numbers are integers: the values of the tests given as        *)
(* fractions are scaled to integers, which keeps every comparison.          *)

\* human_readable_func(x) for the functions the tests hand over: str, the
\* formats "%.1f m" and "%.2f years", and the pH of a concentration given in
\* units of 1e-8 ("pH %.1f" % -log10(x))
human_readable(func, x) ==
    CASE func = "%.1f m" -> ToString(x) \o ".0 m"
      [] func = "%.2f years" -> ToString(x) \o ".00 years"
      [] func = "pH" -> CASE x = 40 -> "pH 6.4" [] x = 80 -> "pH 6.1"
                          [] x = 5 -> "pH 7.3" [] x = 2 -> "pH 7.7"
                          [] OTHER -> "pH"
      [] OTHER -> ToString(x)

\* the text naming the violated pair of levels
levels_text(bound, warn, crit, func) ==
    " (warn/crit " \o bound \o " " \o human_readable(func, warn) \o "/"
        \o human_readable(func, crit) \o ")"

\* _check_boundaries(value, levels, human_readable_func): levels is
\* (warn, crit) or (warn, crit, warn_lower, crit_lower); returns
\* (state, levelstext)
check_boundaries(value, levels, func) ==
    LET warn == levels.v[1].n
        crit == levels.v[2].n
        lower == Len(levels.v) = 4
    IN IF value.n >= crit
       THEN PyTuple(<<PyInt(2), PyStr(levels_text("at", warn, crit, func))>>)
       ELSE IF value.n >= warn
       THEN PyTuple(<<PyInt(1), PyStr(levels_text("at", warn, crit, func))>>)
       ELSE IF lower /\ value.n < levels.v[4].n
       THEN PyTuple(<<PyInt(2), PyStr(levels_text("below", levels.v[3].n, levels.v[4].n,
                                                   func))>>)
       ELSE IF lower /\ value.n < levels.v[3].n
       THEN PyTuple(<<PyInt(1), PyStr(levels_text("below", levels.v[3].n, levels.v[4].n,
                                                   func))>>)
       ELSE PyTuple(<<PyInt(0), PyStr("")>>)

\* check_levels(value, dsname, params, human_readable_func=...): the state
\* and the levels text that ends its infotext; no levels are checked when
\* params is None
check_levels(value, params, func) ==
    IF params = PyNone THEN PyTuple(<<PyInt(0), PyStr("")>>)
    ELSE check_boundaries(value, params, func)

\* the tuple of numbers
Levels(numbers) == PyTuple([i \in 1..Len(numbers) |-> PyInt(numbers[i])])

\* test_boundaries with a value at warn_lower expected to be a warning
test_boundaries_at_lower ==
    <<[value |-> 5, levels |-> <<3, 6>>, func |-> "None",
       state |-> 1, text |-> " (warn/crit at 3/6)"],
      [value |-> 1, levels |-> <<3, 6, 1, 0>>, func |-> "None",
       state |-> 1, text |-> " (warn/crit below 1/0)"]>>

\* the cases of test_boundaries: value, levels, representation, result
test_boundaries ==
    <<[value |-> 5, levels |-> <<3, 6>>, func |-> "None",
       state |-> 1, text |-> " (warn/crit at 3/6)"],
      [value |-> 7, levels |-> <<3, 6>>, func |-> "%.1f m",
       state |-> 2, text |-> " (warn/crit at 3.0 m/6.0 m)"],
      [value |-> 2, levels |-> <<3, 6, 1, 0>>, func |-> "None", state |-> 0, text |-> ""],
      [value |-> 1, levels |-> <<3, 6, 1, 0>>, func |-> "None", state |-> 0, text |-> ""],
      [value |-> 0, levels |-> <<3, 6, 1, 0>>, func |-> "None",
       state |-> 1, text |-> " (warn/crit below 1/0)"],
      [value |-> 0 - 1, levels |-> <<3, 6, 1, 0>>, func |-> "None",
       state |-> 2, text |-> " (warn/crit below 1/0)"]>>

\* the cases of test_check_levels: value, params, human_readable_func (or
\* unit), and the state and the end of the infotext of the result; the
\* concentrations of the third case are in units of 1e-8
test_check_levels ==
    <<[value |-> 5, levels |-> <<>>, func |-> "percent", state |-> 0, text |-> ""],
      [value |-> 6, levels |-> <<4, 8>>, func |-> "%.2f years",
       state |-> 1, text |-> " (warn/crit at 4.00 years/8.00 years)"],
      [value |-> 50, levels |-> <<40, 80, 5, 2>>, func |-> "pH",
       state |-> 1, text |-> " (warn/crit at pH 6.4/pH 6.1)"]>>

\* the values and levels handed to the helpers
CheckValues == (0 - 1)..(MaxInt + 1)
LevelNumbers == 0..MaxInt
CheckLevels ==
    {Levels(<<w, c>>) : w \in LevelNumbers, c \in LevelNumbers}
    \cup {Levels(<<w, c, wl, cl>>) : w \in LevelNumbers, c \in LevelNumbers,
                                     wl \in LevelNumbers, cl \in LevelNumbers}

\* no valuespec object takes part in the calls of the check API
StartCheckApi == Start({ValueSpec(NoDefault, "none")})

Call_check_boundaries ==
    \E value \in CheckValues, levels \in CheckLevels, func \in {"None", "%.1f m"} :
        /\ op = "idle"
        /\ op' = "_check_boundaries"
        /\ arg' = PyTuple(<<PyInt(value), levels>>)
        /\ result' = Return(check_boundaries(PyInt(value), levels, func))
        /\ req' = <<>>
        /\ UNCHANGED vs

Call_check_levels ==
    \E value \in CheckValues, params \in CheckLevels \cup {PyNone} :
        /\ op = "idle"
        /\ op' = "check_levels"
        /\ arg' = PyTuple(<<PyInt(value), params>>)
        /\ result' = Return(check_levels(PyInt(value), params, "None"))
        /\ req' = <<>>
        /\ UNCHANGED vs

\* test_boundaries runs one of its cases: arg holds the expected result
Run_test_boundaries ==
    \E i \in 1..Len(test_boundaries) :
        LET case == test_boundaries[i]
        IN /\ op = "idle"
           /\ op' = "test_boundaries"
           /\ arg' = PyTuple(<<PyInt(case.state), PyStr(case.text)>>)
           /\ result' = Return(check_boundaries(PyInt(case.value), Levels(case.levels),
                                                case.func))
           /\ req' = <<>>
           /\ UNCHANGED vs

\* test_check_levels runs one of its cases: arg holds the expected result
Run_test_check_levels ==
    \E i \in 1..Len(test_check_levels) :
        LET case == test_check_levels[i]
        IN /\ op = "idle"
           /\ op' = "test_check_levels"
           /\ arg' = PyTuple(<<PyInt(case.state), PyStr(case.text)>>)
           /\ result' = Return(check_levels(PyInt(case.value),
                                            IF Len(case.levels) = 0 THEN PyNone
                                            ELSE Levels(case.levels), case.func))
           /\ req' = <<>>
           /\ UNCHANGED vs

\* the generator object that yields items
PyGenerator(items) == [t |-> "generator", n |-> 0, k |-> <<>>, v |-> items]

\* text.upper(), for the words of the tests
upper(text) ==
    CASE text = "one" -> "ONE" [] text = "two" -> "TWO" [] text = "three" -> "THREE"
      [] text = "try" -> "TRY" [] OTHER -> text

\* all(word in value for word in words)
RECURSIVE AllIn(_, _)
AllIn(words, value) ==
    IF Len(words) = 0 THEN Return(PyTrue)
    ELSE LET first == Contains(value, words[1])
         IN IF ~first.ok \/ first.val = PyFalse THEN first ELSE AllIn(Tail(words), value)

\* len(value)
len(value) ==
    CASE value.t \in {"NoneType", "int", "bool"} -> Raise("TypeError")
      [] value.t = "str" -> Return(PyInt(IF StrOf(value) = "" THEN 0 ELSE 1))
      [] OTHER -> Return(PyInt(Len(value.v)))

\* the generator of test_discover_decorator_with_nested_entries: for dbname,
\* used, avail in values: yield "instance:dbname" unless dbname is a system
\* database or used or avail is 'NULL'
RECURSIVE nested_discovery(_, _, _)
nested_discovery(instance, values, acc) ==
    IF Len(values) = 0 THEN Return(PyGenerator(acc))
    ELSE LET row == values[1]
         IN IF row.t \notin {"list", "tuple", "str"} THEN Raise("TypeError")
            ELSE IF row.t = "str" \/ Len(row.v) # 3 THEN Raise("ValueError")
            ELSE nested_discovery(
                     instance, Tail(values),
                     IF /\ row.v[1] \notin {PyStr("information_schema"), PyStr("mysql"),
                                            PyStr("performance_schema")}
                        /\ row.v[2] # PyStr("NULL")
                        /\ row.v[3] # PyStr("NULL")
                     THEN Append(acc, PyStr(instance \o ":" \o StrOf(row.v[1])))
                     ELSE acc)

\* the selector functions the tests hand to discover, by the number of their
\* arguments
OneArgument == {"line[0]", "line[0].upper() if line[1] > 0", "'hello' in entry", "k"}
TwoArguments ==
    {"k", "k.startswith('o')", "k == 'one'", "key == 'hello'", "'load' in values if dict",
     "'Innodb_data_read' in values", "all in values ['load', 'max']", "len(value) > 0",
     "key.upper() if all in value ['used', 'ready']", "nested_discovery", "v == k"}

\* selector(*args) for a selector function of one or two arguments
selector_call(selector, arguments, args) ==
    IF arguments # Len(args) THEN Raise("TypeError")
    ELSE IF arguments = 1
    THEN LET line == args[1]
         IN CASE selector = "line[0]" -> Return(line.v[1])
              [] selector = "line[0].upper() if line[1] > 0" ->
                    IF line.v[2].n > 0 THEN Return(PyStr(upper(StrOf(line.v[1]))))
                    ELSE Return(PyFalse)
              [] selector = "'hello' in entry" -> Contains(line, "hello")
              [] OTHER -> Return(line)
    ELSE LET key == StrOf(args[1])
             value == args[2]
             Bool(b) == IF b THEN Return(PyTrue) ELSE Return(PyFalse)
         IN CASE selector = "k" -> Return(args[1])
              [] selector = "k.startswith('o')" -> Bool(key \in {"one", "o"})
              [] selector = "k == 'one'" -> Bool(key = "one")
              [] selector = "key == 'hello'" -> Bool(key = "hello")
              [] selector = "'load' in values if dict" ->
                    IF value.t = "dict" THEN Contains(value, "load") ELSE Return(PyFalse)
              [] selector = "'Innodb_data_read' in values" ->
                    Contains(value, "Innodb_data_read")
              [] selector = "all in values ['load', 'max']" -> AllIn(<<"load", "max">>, value)
              [] selector = "len(value) > 0" ->
                    LET n == len(value) IN IF ~n.ok THEN n ELSE Bool(n.val.n > 0)
              [] selector = "key.upper() if all in value ['used', 'ready']" ->
                    LET found == AllIn(<<"used", "ready">>, value)
                    IN IF ~found.ok THEN found
                       ELSE IF found.val = PyTrue THEN Return(PyStr(upper(key)))
                       ELSE Return(PyNone)
              [] selector = "nested_discovery" ->
                    LET rows == Iter(value)
                    IN IF ~rows.ok THEN rows ELSE nested_discovery(key, rows.val.v, <<>>)
              [] OTHER -> Bool(PyEq(value, args[1]))

\* the items discovered for an entry called name from the selector's result
items_of(name, selected) ==
    IF selected.t = "generator" THEN selected.v
    ELSE IF selected = PyTrue THEN <<name>>
    ELSE IF selected.t = "str" /\ Truthy(selected) THEN <<selected>>
    ELSE <<>>

\* the pairs discovered for the entries from position i on; args(i) are the
\* arguments the selector gets for entry i and names[i] is its key or
\* first column
RECURSIVE discover_entries(_, _, _, _, _, _)
discover_entries(selector, arguments, params, entries, i, acc) ==
    IF i > Len(entries) THEN Return(PyList(acc))
    ELSE LET selected == IF selector = "None" THEN Return(PyTrue)
                         ELSE selector_call(selector, arguments, entries[i].args)
         IN IF ~selected.ok THEN selected
            ELSE LET items == items_of(entries[i].name, selected.val)
                 IN discover_entries(selector, arguments, params, entries, i + 1,
                                     acc \o [j \in 1..Len(items) |->
                                                 PyTuple(<<items[j], params>>)])

\* list(discover(selector, default_params)(parsed)): default_params given as
\* None stands for not given
discover(selector, arguments, default_params, parsed) ==
    LET params == IF default_params = PyNone THEN EmptyDict ELSE default_params
    IN CASE parsed.t = "dict" ->
                discover_entries(selector, arguments, params,
                                 [i \in 1..Len(parsed.k) |->
                                     [name |-> PyStr(parsed.k[i]),
                                      args |-> <<PyStr(parsed.k[i]), parsed.v[i]>>]],
                                 1, <<>>)
         [] parsed.t = "list" ->
                discover_entries(selector, arguments, params,
                                 [i \in 1..Len(parsed.v) |->
                                     [name |-> IF Len(parsed.v[i].v) > 0 THEN parsed.v[i].v[1]
                                               ELSE PyNone,
                                      args |-> <<parsed.v[i]>>]],
                                 1, <<>>)
         [] OTHER -> Raise("ValueError")

\* one case of the discover tests: the selector and the number of its
\* arguments, default_params, parsed, and the items expected (or the error)
Case(selector, arguments, default_params, parsed, items, error) ==
    [selector |-> selector, arguments |-> arguments, default_params |-> default_params,
     parsed |-> parsed, items |-> items, error |-> error]

\* the line [name, numbers...] and the list of texts
Row(name, numbers) == PyList(<<PyStr(name)>> \o [i \in 1..Len(numbers) |-> PyInt(numbers[i])])
Words(texts) == PyList([i \in 1..Len(texts) |-> PyStr(texts[i])])

\* test_discover_inputs_and_filters expecting an item also for the line
\* whose selector result is False
test_discover_falsy_selected ==
    <<Case("line[0].upper() if line[1] > 0", 1, PyNone,
           PyList(<<Row("one", <<5, 3>>), Row("two", <<0, 0>>), Row("three", <<2, 8>>)>>),
           <<"ONE", "TWO", "THREE">>, "")>>

\* the cases of test_discover_inputs_and_filters whose result is None expect
\* no items
test_discover_inputs_and_filters ==
    LET one_two == PyDict(<<"one", "two">>, <<PyNone, PyNone>>)
        lines == PyList(<<Row("one", <<5, 3>>), Row("two", <<0, 0>>), Row("three", <<2, 8>>)>>)
    IN <<Case("k", 1, PyNone, EmptyDict, <<>>, ""),
         Case("None", 0, PyNone, one_two, <<"one", "two">>, ""),
         Case("k", 2, PyNone, one_two, <<"one", "two">>, ""),
         Case("k.startswith('o')", 2, PyNone, one_two, <<"one">>, ""),
         Case("k == 'one'", 2, PyNone, one_two, <<"one">>, ""),
         Case("'load' in values if dict", 2, PyNone,
              PyDict(<<"one", "two", "three">>,
                     <<PyStr("enabled"), PyDict(<<"load", "max">>, <<PyInt(10), PyInt(50)>>),
                       Words(<<"load", "capacity">>)>>),
              <<"two">>, ""),
         Case("'Innodb_data_read' in values", 2, PyNone,
              PyDict(<<"one", "two">>,
                     <<PyStr("enabled"),
                       PyDict(<<"load", "max", "Innodb_data_read">>,
                              <<PyInt(10), PyInt(50), PyTrue>>)>>),
              <<"two">>, ""),
         Case("all in values ['load', 'max']", 2, PyNone,
              PyDict(<<"one", "two">>,
                     <<PyStr("enabled"),
                       PyDict(<<"load", "Innodb_data_read">>, <<PyInt(10), PyTrue>>)>>),
              <<>>, ""),
         Case("len(value) > 0", 2, PyNone,
              PyDict(<<"one", "two", "three", "four", "five">>,
                     <<PyList(<<PyInt(1)>>), PyList(<<PyInt(2)>>), PyList(<<PyInt(3)>>),
                       PyTuple(<<>>), PyList(<<>>)>>),
              <<"one", "two", "three">>, ""),
         Case("line[0]", 1, PyNone, lines, <<"one", "two", "three">>, ""),
         Case("line[0].upper() if line[1] > 0", 1, PyNone, lines, <<"ONE", "THREE">>, "")>>

\* test_discover_decorator_key_match, _with_params, _returned_name and
\* _with_nested_entries
test_discover_decorator ==
    <<Case("key == 'hello'", 2, PyNone,
           PyDict(<<"hola", "hello">>, <<PyStr("es"), PyStr("en")>>), <<"hello">>, ""),
      Case("'hello' in entry", 1, PyStr("empty"),
           PyList(<<Words(<<"hello", "world">>), Words(<<"hola", "mundo">>)>>),
           <<"hello">>, ""),
      Case("key.upper() if all in value ['used', 'ready']", 2, PyNone,
           PyDict(<<"host", "house", "try">>,
                  <<PyList(<<Row("mysql", <<10, 10>>), Row("home", <<5, 8>>)>>),
                    PyList(<<Row("performance_schema", <<5, 7>>), Row("test", <<1, 5>>)>>),
                    Words(<<"used", "ready", "total">>)>>),
           <<"TRY">>, ""),
      Case("nested_discovery", 2, PyNone,
           PyDict(<<"host", "house">>,
                  <<PyList(<<Row("mysql", <<10, 10>>), Row("home", <<5, 8>>)>>),
                    PyList(<<Row("performance_schema", <<5, 7>>), Row("test", <<1, 5>>)>>)>>),
           <<"host:home", "house:test">>, "")>>

\* test_discover_exceptions
test_discover_exceptions ==
    <<Case("k", 1, PyNone, PyDict(<<"one", "two">>, <<PyNone, PyNone>>), <<>>, "TypeError"),
      Case("k.startswith('o')", 2, PyNone, PyNone, <<>>, "ValueError"),
      Case("v == k", 2, PyNone, PyList([i \in 1..5 |-> PyInt(i - 1)]), <<>>, "TypeError")>>

\* the values of parsed handed to discover
ParsedEntries ==
    {PyNone, PyList(<<>>), PyList(<<PyInt(1)>>), PyDict(<<"load">>, <<PyInt(10)>>),
     PyList(<<Row("home", <<5, 8>>)>>)}
ParsedLines == {Row("one", <<1>>), Row("two", <<0>>)}
ParsedValues ==
    {EmptyDict, PyNone, PyInt(0), PyStr("one")}
    \cup {PyDict(<<key>>, <<x>>) : key \in {"one", "two"}, x \in ParsedEntries}
    \cup {PyDict(<<"one", "two">>, <<x, y>>) : x \in ParsedEntries, y \in ParsedEntries}
    \cup {PyList(q) : q \in SeqsUpTo(ParsedLines, MaxLen)}

\* the selectors handed to discover, each with the number of its arguments
Selectors ==
    {[name |-> "None", arguments |-> 0]}
    \cup {[name |-> f, arguments |-> 1] : f \in OneArgument \ {"k"}}
    \cup {[name |-> f, arguments |-> 2] : f \in TwoArguments}

Call_discover ==
    \E selector \in Selectors, default_params \in {PyNone, PyStr("empty")},
       parsed \in ParsedValues :
        /\ op = "idle"
        /\ op' = "discover"
        /\ arg' = PyTuple(<<PyStr(selector.name), PyInt(selector.arguments), default_params,
                            parsed>>)
        /\ result' = discover(selector.name, selector.arguments, default_params, parsed)
        /\ req' = <<>>
        /\ UNCHANGED vs

\* a discover test runs one of its cases: arg holds the expected pairs and
\* the expected error
Run_test_discover ==
    \E cases \in {test_discover_inputs_and_filters, test_discover_decorator,
                  test_discover_exceptions} :
        \E i \in 1..Len(cases) :
            LET case == cases[i]
                params == IF case.default_params = PyNone THEN EmptyDict
                          ELSE case.default_params
            IN /\ op = "idle"
               /\ op' = "test_discover"
               /\ arg' = PyTuple(<<PyList([j \in 1..Len(case.items) |->
                                              PyTuple(<<PyStr(case.items[j]), params>>)]),
                                   PyStr(case.error)>>)
               /\ result' = discover(case.selector, case.arguments, case.default_params,
                                     case.parsed)
               /\ req' = <<>>
               /\ UNCHANGED vs

NextCheckApi ==
    \/ Call_check_boundaries
    \/ Call_check_levels
    \/ Run_test_boundaries
    \/ Run_test_check_levels
    \/ Call_discover
    \/ Run_test_discover
    \/ Finish

SpecCheckApi == StartCheckApi /\ [][NextCheckApi]_vars

-----------------------------------------------------------------------------
(* Claims about the base class, checked under Spec                         *)

\* the phases validate_value is documented to run on value, in order, each
\* only when the earlier ones raised nothing
DocumentedPhases(self, value) ==
    IF ~validate_datatype(self, value).ok THEN <<"validate_datatype">>
    ELSE IF ~validate_value_inner(self, value).ok
    THEN <<"validate_datatype", "_validate_value">>
    ELSE <<"validate_datatype", "_validate_value", "_custom_validate">>

\* C1: validate_value runs validate_datatype, then _validate_value, then
\* _custom_validate, each phase only when every earlier phase raised nothing.
C1_ThreePhases ==
    op = "validate_value" => result.called = DocumentedPhases(vs, arg)

\* the constructor arguments of self exclude no value by themselves: no
\* validate callable is given and minvalue does not exceed maxvalue
Satisfiable(self) ==
    /\ self.validate = "none"
    /\ \/ self.minvalue = PyNone
       \/ self.maxvalue = PyNone
       \/ ~PyLess(self.maxvalue, self.minvalue)

\* C2: the value canonical_value returns passes validate_datatype and
\* validate_value of the same object.
C2_CanonicalValueIsValid ==
    (op = "canonical_value" /\ result.ok /\ Satisfiable(vs)) =>
        /\ validate_datatype(vs, result.val).ok
        /\ validate_value(vs, result.val).ok

\* the classes that inherit default_value from ValueSpec
InheritsDefaultValue(self) ==
    self.cls \in {"ValueSpec", "FixedValue", "Integer", "Timeofday", "FileUpload", "Optional"}

\* C3: ValueSpec.default_value returns the default_value given to the
\* constructor, called when it is a function; it returns canonical_value()
\* when none was given or when obtaining it raises.
C3_DefaultValue ==
    (op = "default_value" /\ InheritsDefaultValue(vs)) =>
        result = CASE vs.dflt.kind = "value" -> Return(vs.dflt.v)
                   [] vs.dflt.kind = "func" -> Return(vs.dflt.v)
                   [] OTHER -> canonical_value(vs)

\* a default of None was given to an object whose canonical value is not
\* None, and default_value returned None
C3_Witness ==
    /\ op = "default_value"
    /\ vs.cls = "Integer"
    /\ vs.dflt = DefaultIs(PyNone)
    /\ result = Return(PyNone)
    /\ canonical_value(vs) # Return(PyNone)

-----------------------------------------------------------------------------
(* Claims about Dictionary, checked under SpecDictionary                   *)

\* value is a dict in which (a) every present declared key passes its
\* element's validate_datatype, (b) every required key is present, all keys
\* being required when optional_keys is false, and (c) every key is declared
\* or ignored
DictionaryAccepts(self, value) ==
    /\ value.t = "dict"
    /\ \A i \in 1..Len(self.keys) :
          DictHas(value, self.keys[i]) =>
              validate_datatype(self.elements[i], DictGet(value, self.keys[i])).ok
    /\ \A i \in 1..Len(self.keys) :
          (~self.optional_keys \/ self.keys[i] \in SeqToSet(self.required_keys)) =>
              DictHas(value, self.keys[i])
    /\ \A key \in SeqToSet(value.k) :
          key \in SeqToSet(self.keys) \cup SeqToSet(self.ignored_keys)

\* C4 as stated: validate_datatype accepts a value iff the value itself is
\* such a dict, and raises MKUserError otherwise.
C4_AcceptsIffDict ==
    (op = "validate_datatype" /\ vs.cls = "Dictionary") =>
        /\ result.ok <=> DictionaryAccepts(vs, arg)
        /\ ~result.ok => result.err = "MKUserError"

\* C4 amended: validate_datatype accepts a value iff the value after
\* migrate (the value itself when no migrate function is configured) is such
\* a dict; otherwise it raises MKUserError, or the exception of another
\* type that the validate_datatype of a present element raised.
C4_AcceptsIffMigratedDict ==
    (op = "validate_datatype" /\ vs.cls = "Dictionary") =>
        LET migrated == IF vs.migrate = "none" THEN arg ELSE CallFn(vs.migrate, arg).val
        IN /\ result.ok <=> DictionaryAccepts(vs, migrated)
           /\ ~result.ok =>
                 \/ result.err = "MKUserError"
                 \/ /\ migrated.t = "dict"
                    /\ \E i \in 1..Len(vs.keys) :
                          /\ DictHas(migrated, vs.keys[i])
                          /\ result = validate_datatype(vs.elements[i],
                                                        DictGet(migrated, vs.keys[i]))

\* a pair is accepted by a Dictionary that migrates pairs to dicts, and a
\* dict with an undeclared key has been rejected by the same kind of object
C4_Witness ==
    /\ op = "validate_datatype"
    /\ vs.cls = "Dictionary"
    /\ vs.migrate = "pair_to_dict"
    /\ arg = PyTuple(<<PyInt(0), PyInt(1)>>)
    /\ result.ok
    /\ ~validate_datatype(vs, PyDict(<<"a", "b", "c">>, <<PyInt(0), PyInt(1), PyInt(0)>>)).ok

\* html.get_checkbox(<varprefix>_p_<key>_USE) is checked in request r
UseChecked(r, key) ==
    ("v_p_" \o key \o "_USE") \in DOMAIN r /\ r["v_p_" \o key \o "_USE"] = "on"

\* optional_keys was given as False (or as an empty list, which is as false)
GivenNotOptional(self) ==
    \/ self.given_optional_keys = OptBool(FALSE)
    \/ self.given_optional_keys = OptList(<<>>)

\* optional_keys was given as a non-empty list
GivenOptionalList(self) ==
    self.given_optional_keys.is_list /\ Len(self.given_optional_keys.l) > 0

\* the dict returned for request req holds exactly the keys in present, each with the value its element parsed; an exception is that of an
\* element that was to be parsed
FromHtmlVarsHolds(present) ==
    /\ result.ok =>
          /\ result.val.t = "dict"
          /\ \A i \in 1..Len(vs.keys) :
                /\ DictHas(result.val, vs.keys[i]) <=> vs.keys[i] \in present
                /\ DictHas(result.val, vs.keys[i]) =>
                      Return(DictGet(result.val, vs.keys[i]))
                          = from_html_vars(vs.elements[i], req, "v_p_" \o vs.keys[i])
    /\ ~result.ok =>
          \E i \in 1..Len(vs.keys) :
              /\ vs.keys[i] \in present
              /\ result = from_html_vars(vs.elements[i], req, "v_p_" \o vs.keys[i])

\* C5 as stated: key k is in the returned dict iff optional_keys is False,
\* or k is listed in required_keys, or optional_keys is a non-empty list
\* that does not contain k, or the checkbox of k is checked.
C5_KeyPresentIff ==
    (op = "from_html_vars" /\ vs.cls = "Dictionary") =>
        LET Present(key) ==
                \/ GivenNotOptional(vs)
                \/ key \in SeqToSet(vs.given_required_keys)
                \/ GivenOptionalList(vs) /\ key \notin SeqToSet(vs.given_optional_keys.l)
                \/ UseChecked(req, key)
        IN FromHtmlVarsHolds({key \in SeqToSet(vs.keys) : Present(key)})

\* C5 amended: required_keys counts only when optional_keys is not a
\* non-empty list; with such a list k is required iff the list does not
\* contain it.
C5_KeyPresentIffAmended ==
    (op = "from_html_vars" /\ vs.cls = "Dictionary") =>
        LET Present(key) ==
                \/ GivenNotOptional(vs)
                \/ IF GivenOptionalList(vs)
                   THEN key \notin SeqToSet(vs.given_optional_keys.l)
                   ELSE key \in SeqToSet(vs.given_required_keys)
                \/ UseChecked(req, key)
        IN FromHtmlVarsHolds({key \in SeqToSet(vs.keys) : Present(key)})

\* a key listed in both optional_keys and required_keys is left out when its
\* checkbox is not checked, while the other key is parsed
C5_Witness ==
    /\ op = "from_html_vars"
    /\ vs.cls = "Dictionary"
    /\ vs.given_optional_keys = OptList(<<"a">>)
    /\ vs.given_required_keys = <<"a">>
    /\ ~UseChecked(req, "a")
    /\ result.ok
    /\ ~DictHas(result.val, "a")
    /\ DictHas(result.val, "b")
    /\ DictGet(result.val, "b") = PyInt(1)

-----------------------------------------------------------------------------
(* Claim about Tuple, checked under SpecTuple                              *)

\* C6: a value valid for a Tuple is a tuple of exactly len(elements)
\* components, each valid for the element at its position; from_html_vars
\* returns a tuple of exactly len(elements) components; validation rejects
\* tuples that are shorter or longer.
C6_FixedSize ==
    vs.cls = "Tuple" =>
        /\ (op = "validate_datatype" /\ result.ok) =>
              /\ arg.t = "tuple"
              /\ Len(arg.v) = Len(vs.elements)
              /\ \A i \in 1..Len(vs.elements) :
                    validate_datatype(vs.elements[i], arg.v[i]).ok
        /\ (op = "from_html_vars" /\ result.ok) =>
              /\ result.val.t = "tuple"
              /\ Len(result.val.v) = Len(vs.elements)
        /\ (op \in {"validate_datatype", "validate_value"}
               /\ arg.t = "tuple" /\ Len(arg.v) # Len(vs.elements)) =>
              ~result.ok

-----------------------------------------------------------------------------
(* Claim about Transform, checked under SpecTransform                      *)

\* back(x) for the outcome x of the wrapped valuespec, back being the
\* identity when not given
BackOfWrapped(self, x) ==
    IF ~x.ok THEN x
    ELSE IF self.back = "none" THEN Return(x.val)
    ELSE CallFn(self.back, x.val)

\* forth(value), forth being the identity when not given
ForthOf(self, value) ==
    IF self.forth = "none" THEN Return(value) ELSE CallFn(self.forth, value)

-----------------------------------------------------------------------------
(* Claim about Alternative, checked under SpecAlternative                  *)

\* some element's validate_datatype accepts value
SomeAccepts(self, value) ==
    \E i \in 1..Len(self.elements) : validate_datatype(self.elements[i], value).ok

\* C8: matching_alternative returns elements[match(value)] when a match
\* function is configured, else the first element whose validate_datatype
\* accepts the value, None without one; validate_datatype raises MKUserError
\* exactly when no element accepts the value; validation of a value that
\* matches no alternative fails.
C8_MatchingAlternative ==
    (vs.cls = "Alternative" /\ op \in {"validate_datatype", "validate_value"}) =>
        LET m == Alternative_matching_alternative(vs, arg)
            nr == CallMatch(vs.match, arg)
        IN /\ vs.match # "none" =>
                 m = IF nr < Len(vs.elements) THEN Return(PyInt(nr)) ELSE Raise("IndexError")
           /\ (vs.match = "none" /\ SomeAccepts(vs, arg)) =>
                 /\ m.ok /\ m.val.t = "int"
                 /\ validate_datatype(vs.elements[m.val.n + 1], arg).ok
                 /\ \A j \in 1..m.val.n : ~validate_datatype(vs.elements[j], arg).ok
           /\ (vs.match = "none" /\ ~SomeAccepts(vs, arg)) => m = Return(PyNone)
           /\ op = "validate_datatype" =>
                 /\ result.ok <=> SomeAccepts(vs, arg)
                 /\ ~result.ok => result.err = "MKUserError"
           /\ (op = "validate_value" /\ ~SomeAccepts(vs, arg)) => ~result.ok

-----------------------------------------------------------------------------
(* Claim about Optional, checked under SpecOptional                        *)

\* the checkbox <varprefix>_use is checked in request r
OptionChecked(r) == "v_use" \in DOMAIN r /\ r["v_use"] = "on"

\* from_html_vars returns the wrapped valuespec's parsed value iff the
\* checkbox differs from negate, and none_value otherwise
OptionalParses ==
    op = "from_html_vars" =>
        result = IF OptionChecked(req) # vs.negate
                 THEN from_html_vars(vs.elements[1], req, "v_value")
                 ELSE Return(vs.value)

\* every value other than none_value is delegated to the wrapped valuespec
OptionalDelegates ==
    /\ (op = "validate_datatype" /\ arg # vs.value) =>
          result = validate_datatype(vs.elements[1], arg)
    /\ (op = "validate_value" /\ arg # vs.value) =>
          LET inner == validate_value(vs.elements[1], arg)
          IN IF ~inner.ok THEN ~result.ok /\ result.err = inner.err
             ELSE result.ok <=> custom_validate(vs, arg).ok

\* C9 as stated: from_html_vars returns the wrapped valuespec's parsed value
\* iff the checkbox differs from negate, none_value otherwise;
\* validate_datatype and validate_value accept none_value and delegate every
\* other value to the wrapped valuespec.
C9_NoneValueAccepted ==
    vs.cls = "Optional" =>
        /\ OptionalParses
        /\ OptionalDelegates
        /\ (op \in {"validate_datatype", "validate_value"} /\ arg = vs.value) => result.ok

\* C9 amended: validate_value accepts none_value exactly when the validate
\* callable of the Optional itself accepts it (always when none is given);
\* the wrapped valuespec is not consulted.
C9_NoneValueNotDelegated ==
    vs.cls = "Optional" =>
        /\ OptionalParses
        /\ OptionalDelegates
        /\ (op = "validate_datatype" /\ arg = vs.value) => result.ok
        /\ (op = "validate_value" /\ arg = vs.value) =>
              (result.ok <=> custom_validate(vs, arg).ok)

\* none_value is accepted by validate_value although the wrapped valuespec
\* rejects it
C9_Witness ==
    /\ op = "validate_value"
    /\ vs.cls = "Optional"
    /\ arg = vs.value
    /\ ~validate_value(vs.elements[1], arg).ok
    /\ result.ok

-----------------------------------------------------------------------------
(* Claim about CascadingDropdown, checked under SpecCascadingDropdown       *)

\* value is built from entry i of choices for request r: the single value of
\* the entry, or the pair of it and what the entry's valuespec parsed under
\* the variable prefix of some selection
BuiltFrom(self, choices, i, r, outcome) ==
    IF ~choices[i].has_vs THEN outcome = Return(choices[i].val)
    ELSE \E sel \in (0 - MaxSel - 1)..MaxSel :
            LET y == from_html_vars(choices[i].vs, r, "v_" \o ToString(sel))
            IN outcome = IF y.ok THEN Return(Encoded(self, choices[i].val, y.val)) ELSE y

\* value has the shape of entry i of choices
ShapeOf(self, choices, i, value) ==
    IF ~choices[i].has_vs THEN value = choices[i].val
    ELSE /\ IsEncoded(self, value)
         /\ Len(value.v) = 2
         /\ value.v[1] = choices[i].val
         /\ validate_datatype(choices[i].vs, value.v[2]).ok

\* C10: for every submitted <varprefix>_sel, from_html_vars of a
\* CascadingDropdown with choices returns a value built from one entry of
\* choices(); validate_datatype accepts exactly the values of that shape and
\* raises MKUserError for any other value.
C10_BuiltFromOneChoice ==
    (vs.cls = "CascadingDropdown" /\ Len(CascadingDropdown_choices(vs)) > 0) =>
        LET choices == CascadingDropdown_choices(vs)
        IN /\ op = "from_html_vars" =>
                 \E i \in 1..Len(choices) : BuiltFrom(vs, choices, i, req, result)
           /\ op = "validate_datatype" =>
                 /\ result.ok <=> \E i \in 1..Len(choices) : ShapeOf(vs, choices, i, arg)
                 /\ ~result.ok => result.err = "MKUserError"

-----------------------------------------------------------------------------
(* Claim about DropdownChoice, checked under SpecDropdownChoice            *)

\* from_html_vars returns the value of the first choice among matching (a
\* set of positions in choices()); without one it returns default_value()
\* when invalid_choice is 'replace' and else raises MKUserError with
\* empty_text for no choices and invalid_choice_error otherwise; with
\* invalid_choice 'complain', validate_value raises MKUserError for every
\* value that equals no choice
DropdownChoiceHolds(matching) ==
    LET choices == DropdownChoice_choices(vs)
    IN /\ op = "from_html_vars" =>
             result = IF matching # {}
                      THEN Return(choices[CHOOSE i \in matching : \A j \in matching : i <= j])
                      ELSE IF vs.invalid_choice = "replace" THEN default_value(vs)
                      ELSE IF Len(choices) = 0 THEN MKUserError("empty_text")
                      ELSE MKUserError("invalid_choice_error")
       /\ (op = "validate_value" /\ vs.invalid_choice = "complain"
              /\ \A i \in 1..Len(choices) : ~PyEq(choices[i], arg)) =>
             ~result.ok /\ result.err = "MKUserError"

\* the positions of the choices whose option id is the submitted text
MatchingOptionId ==
    LET choices == DropdownChoice_choices(vs)
    IN {i \in 1..Len(choices) : "v" \in DOMAIN req /\ req["v"] = option_id(choices[i])}

\* C11 as stated: from_html_vars returns the typed value of the choice whose
\* option id equals the submitted variable, else default_value() or
\* MKUserError; with 'complain' validate_value rejects every value that is
\* no choice.
C11_TypeSafe ==
    vs.cls = "DropdownChoice" => DropdownChoiceHolds(MatchingOptionId)

\* C11 amended: the option ids are compared only when encode_value is True;
\* with encode_value False the choice is matched whose value is the
\* submitted text itself, or is None when the variable is not submitted.
C11_TypeSafeWhenEncoded ==
    vs.cls = "DropdownChoice" =>
        LET choices == DropdownChoice_choices(vs)
        IN DropdownChoiceHolds(
               IF vs.encode_value THEN MatchingOptionId
               ELSE {i \in 1..Len(choices) :
                        IF "v" \in DOMAIN req THEN choices[i] = PyStr(req["v"])
                        ELSE choices[i] = PyNone})

\* the submitted option id of the number 1 is turned back into the number,
\* which is not the first choice
C11_Witness ==
    /\ op = "from_html_vars"
    /\ vs.cls = "DropdownChoice"
    /\ vs.encode_value
    /\ "v" \in DOMAIN req
    /\ req["v"] = option_id(PyInt(1))
    /\ result = Return(PyInt(1))
    /\ Len(DropdownChoice_choices(vs)) > 1
    /\ DropdownChoice_choices(vs)[1] # PyInt(1)
    /\ DropdownChoice_choices(vs)[2] = PyInt(1)

-----------------------------------------------------------------------------
(* Claims about the check API, checked under SpecCheckApi                  *)

\* the state and the levels text returned for value and levels are those of
\* the level-based classification
Classified(value, levels, state, text) ==
    LET warn == levels.v[1].n
        crit == levels.v[2].n
        lower == Len(levels.v) = 4
        upper_hit == value >= crit \/ value >= warn
        lower_hit == lower /\ ~upper_hit
                     /\ (value < levels.v[3].n \/ value < levels.v[4].n)
    IN /\ state \in {0, 1, 2}
       /\ state = 2 <=> (value >= crit \/ (lower_hit /\ value < levels.v[4].n))
       /\ state = 0 <=> (~upper_hit /\ ~lower_hit)
       /\ text = "" <=> state = 0
       /\ upper_hit => \E func \in {"None", "%.1f m", "%.2f years", "pH"} :
                           text = levels_text("at", warn, crit, func)
       /\ lower_hit => \E func \in {"None", "%.1f m", "%.2f years", "pH"} :
                           text = levels_text("below", levels.v[3].n, levels.v[4].n, func)

\* C12: _check_boundaries returns state 2 when value is at or above crit,
\* else 1 when at or above warn, else, with lower levels, 2 when below
\* crit_lower, else 1 when below warn_lower, else 0; the levels text is empty
\* exactly when the state is 0 and otherwise names the violated pair;
\* check_levels returns that state, and state 0 when params is None; the
\* cases of test_boundaries and test_check_levels get the results they expect.
C12_LevelClassification ==
    /\ op = "_check_boundaries" =>
          Classified(arg.v[1].n, arg.v[2], result.val.v[1].n, StrOf(result.val.v[2]))
    /\ (op = "check_levels" /\ arg.v[2] = PyNone) => result.val.v[1] = PyInt(0)
    /\ (op = "check_levels" /\ arg.v[2] # PyNone) =>
          Classified(arg.v[1].n, arg.v[2], result.val.v[1].n, StrOf(result.val.v[2]))
    /\ op \in {"test_boundaries", "test_check_levels"} => result.val = arg

\* a value below warn_lower and not below crit_lower is a warning that names
\* the lower pair
C12_Witness ==
    /\ op = "_check_boundaries"
    /\ Len(arg.v[2].v) = 4
    /\ arg.v[1].n < arg.v[2].v[1].n
    /\ arg.v[1].n < arg.v[2].v[3].n
    /\ arg.v[1].n >= arg.v[2].v[4].n
    /\ result.val.v[1] = PyInt(1)
    /\ \E func \in {"None", "%.1f m"} :
           result.val.v[2]
               = PyStr(levels_text("below", arg.v[2].v[3].n, arg.v[2].v[4].n, func))

\* the entries of parsed: the name (key or first column) and the arguments
\* the selector gets
EntriesOf(parsed) ==
    IF parsed.t = "dict"
    THEN [i \in 1..Len(parsed.k) |->
             [name |-> PyStr(parsed.k[i]), args |-> <<PyStr(parsed.k[i]), parsed.v[i]>>]]
    ELSE [i \in 1..Len(parsed.v) |-> [name |-> parsed.v[i].v[1], args |-> <<parsed.v[i]>>]]

-----------------------------------------------------------------------------
(* Claims about the check parameter plugins                                *)

\* value is a 2-tuple of integers
IsIntegerLevels(value) ==
    /\ value.t = "tuple"
    /\ Len(value.v) = 2
    /\ \A i \in 1..2 : IsIntegral(value.v[i])

\* value is a 2-tuple of floats
IsPercentLevels(value) ==
    /\ value.t = "tuple"
    /\ Len(value.v) = 2
    /\ \A i \in 1..2 : value.v[i].t = "float"

\* the number is within 0.0..101.0
InPercentRange(x) == 0 <= x.n /\ x.n <= 101

\* the default value the claim gives to each registered parameter valuespec
ClaimedDefault(check_group_name) ==
    IF check_group_name = "jvm_threads" THEN PyTuple(<<PyInt(80), PyInt(100)>>)
    ELSE EmptyDict

\* C14: the parameter valuespec registered for jvm_threads is a 2-tuple of
\* integers with the default value (80, 100); the one registered for
\* emcvnx_storage_pools is a dictionary whose only key percent_full is
\* optional and holds a 2-tuple of percentages with the defaults
\* (70.0, 90.0), each limited to 0.0..101.0; validate_datatype and
\* validate_value of each registered valuespec accept its default value.
C14_CheckParameters ==
    LET jvm_threads == registered_parameter_valuespec("jvm_threads")
        emcvnx_storage_pools == registered_parameter_valuespec("emcvnx_storage_pools")
    IN /\ \A name \in check_group_names :
              vs = registered_parameter_valuespec(name) =>
                  /\ op = "default_value" => result = Return(ClaimedDefault(name))
                  /\ op \in {"validate_datatype", "validate_value"}
                        /\ arg = ClaimedDefault(name) => result.ok
       /\ vs = jvm_threads /\ op = "validate_datatype" =>
              (result.ok <=> IsIntegerLevels(arg))
       /\ vs = emcvnx_storage_pools =>
              /\ op = "validate_datatype" =>
                    (result.ok <=>
                        /\ arg.t = "dict"
                        /\ SeqToSet(arg.k) \subseteq {"percent_full"}
                        /\ DictHas(arg, "percent_full") =>
                              IsPercentLevels(DictGet(arg, "percent_full")))
              /\ op = "validate_value" /\ arg.t = "dict" /\ DictHas(arg, "percent_full")
                    /\ IsPercentLevels(DictGet(arg, "percent_full")) =>
                    (result.ok <=>
                        \A i \in 1..2 : InPercentRange(DictGet(arg, "percent_full").v[i]))
              /\ op = "from_html_vars" /\ result.ok =>
                    (DictHas(result.val, "percent_full")
                        <=> get_checkbox(req, "v_p_percent_full_USE") = PyTrue)
       /\ vs \in {emcvnx_storage_pools.elements[i] : i \in 1..Len(emcvnx_storage_pools.elements)} =>
              /\ vs.cls = "Tuple"
              /\ op = "default_value" =>
                    result = Return(PyTuple(<<PyFloat(70), PyFloat(90)>>))
              /\ op = "validate_datatype" => (result.ok <=> IsPercentLevels(arg))
       /\ vs.cls = "Percentage" /\ op = "validate_value" /\ arg.t = "float" =>
              (result.ok <=> InPercentRange(arg))

\* the levels (70.0, 102.0) are of the right type for percent_full
C14_Witness ==
    /\ vs = registered_parameter_valuespec("emcvnx_storage_pools")
    /\ op = "validate_datatype"
    /\ arg = PyDict(<<"percent_full">>, <<PyTuple(<<PyFloat(70), PyFloat(102)>>)>>)
    /\ result.ok

====
